---------------------------- MODULE Spec2Model ----------------------------
(***************************************************************************)
(* The /api/chat stream of the hardened worker (src/src/index.ts): the     *)
(* async task started inside ReadableStream.start, the three timers it     *)
(* arms (45 s overall timeout, 8 s heartbeat interval, 12 s first-packet   *)
(* watchdog) and the translation loop readUpstream.                        *)
(*                                                                         *)
(* One action is one turn of the JavaScript event loop: the continuation   *)
(* of the task after an await settles, or one timer callback, run up to    *)
(* its next await.  Promise reactions (microtasks) run inside the turn     *)
(* that settles the promise, so an abort and the rejection it causes in    *)
(* the awaiting task are one action.                                       *)
(*                                                                         *)
(* The module also holds, each with its own variable and specification:    *)
(* /api/debug of the same worker (SpecDebug), two requests decoded side by *)
(* side (SpecTwin), the accumulator variant of handleChat in               *)
(* src/unnamed/part_001 (SpecAccum) and the browser client                 *)
(* src/public/chat.js (SpecClient, SpecClose).                             *)
(***************************************************************************)
EXTENDS Integers, Sequences, FiniteSets, TLC

VARIABLES
    cfg,          \* the request and its configuration (env + query), fixed at Init
    http,         \* the HTTP response the worker returned to the client
    script,       \* the scripted upstream: names of its line and answer alphabets
    now,          \* Date.now() - (time the task started), in ms
    pc,           \* where the async task is suspended
    replies,      \* the responses the streaming fetches resolved with, in order
    firstDetail,  \* firstDetail of index.ts:422, Absent until it is read
    fallback,     \* status and text the watchdog callback got from the fallback call
    reqs,         \* every upstream request issued, in order
    out,          \* chunks enqueued on the outgoing controller, in order
    ctrlClosed,   \* controller.close() has been executed
    closeCalls,   \* number of controller.close() calls that succeeded
    clientGone,   \* the client cancelled the outgoing stream
    threw,        \* number of enqueue/close calls that threw (stream not writable)
    aborted,      \* upstreamCtl.signal: "no", or the abort reason
    toTimer,      \* timeoutHandle: "armed" | "cleared" | "fired"
    hbOn,         \* the heartbeat interval is armed (not yet clearInterval'ed)
    hbDue,        \* heartbeat interval: time its next tick is due
    ranAfterClose,\* the timer callbacks that ran after controller.close()
    wd,           \* firstPacketTimer and its async callback
    wdDue,        \* due time of firstPacketTimer
    lastTextTs,   \* index.ts:239
    gotFirstText, \* index.ts:260
    lastEvent,    \* readUpstream local, index.ts:291
    dumpCount,    \* readUpstream local, index.ts:292
    linesLeft,    \* lines the scripted upstream may still send
    buffer,       \* readUpstream local, index.ts:289: the bytes after the last newline
    eof,          \* history: reader.read() has returned done
    upBytes,      \* history: the bytes of the upstream body so far (kept when script.cut)
    readsIssued,  \* reader.read() calls made on the upstream body so far
    cancelSnap,   \* Len(reqs) and readsIssued when the client cancelled
    lastContentAt,\* history: time the last content chunk (cmpl-chunk) was enqueued
    upDeltas,     \* history: non-empty delta strings of the records delivered
    onlyDeltas,   \* history: every line delivered was such a delta record
    debug,        \* /api/debug: the environments of two deployments and what each answered
    twin,         \* two runs of the task on the same upstream body
    accum,        \* the stream of handleChat in the accumulator variant (part_001)
    client        \* the browser client (public/chat.js): the page and its sendMessage calls

vars == << cfg, http, script, now, pc, replies, firstDetail, fallback, reqs, out, ctrlClosed,
           closeCalls, clientGone, threw, aborted, toTimer, hbOn, hbDue, ranAfterClose, wd,
           wdDue, lastTextTs, gotFirstText, lastEvent, dumpCount, linesLeft, buffer,
           eof, upBytes, readsIssued, cancelSnap, lastContentAt, upDeltas, onlyDeltas,
           debug, twin, accum, client >>

\* the state of the other endpoints and programs of the repository
others == << debug, twin, accum, client >>

\* no /api/debug request was made
DebugIdle == [ envs |-> << >>, bodies |-> << >> ]

\* only /api/chat of the hardened worker is exercised
\* no second run
TwinIdle == [ feed |-> << >> ]

\* no request to the accumulator variant
AccumIdle == [ pc |-> "off" ]

\* no page is open
ClientIdle == [ calls |-> << >> ]

OthersIdle ==
    debug = DebugIdle /\ twin = TwinIdle /\ accum = AccumIdle /\ client = ClientIdle

(***************************************************************************)
(* Bounds of the model.                                                    *)
(***************************************************************************)
\* lines the scripted upstream sends per request, over all its deliveries
MaxUpstreamLines == 3

\* clock steps per request
MaxTicks == 6
\* lines the scripted upstream sends when the client may cancel
MaxCancelLines == 2
\* lines the scripted upstream sends when every configuration and answer is tried
MaxRetryLines == 1
\* lines the scripted upstream sends when every kind of request is tried
MaxRequestLines == 1
\* lines the scripted upstream sends when it cuts them across deliveries
MaxByteLines == 2

(***************************************************************************)
(* Program constants.                                                      *)
(***************************************************************************)
REQUEST_TIMEOUT_MS == 45000
HEARTBEAT_MS == 8000
FIRST_PACKET_MS == 12000
DUMP_LIMIT == 5

\* the clock advances in steps of Grain ms, up to Horizon ms
Grain == HEARTBEAT_MS
Horizon == MaxTicks * Grain

(***************************************************************************)
(* Request configuration and upstream payloads (index.ts:62-218).          *)
(***************************************************************************)
TOOL_MODELS == {"gpt-4o", "gpt-4o-2024-11-20", "gpt-4o-mini", "gpt-4.1", "gpt-4.1-mini"}

\* the model names the requests are run with
ModelNames == {"gpt-4o", "gpt-5", "gpt-5-thinking"}

\* /thinking/i.test(model), on ModelNames
isThinking(model) == model \in {"gpt-5-thinking"}

supportsSampling(model) == ~isThinking(model)

\* seed as resolved at index.ts:192: undefined, NaN (Number of a non-number) or a number
Seeds == {"undefined", "NaN", "7"}

\* seed !== undefined && !Number.isNaN(seed)
seedValid(seed) == seed # "undefined" /\ seed # "NaN"

Configs ==
    [ model : ModelNames, enableTools : BOOLEAN, seed : Seeds,
      debugEvents : BOOLEAN, debugDump : BOOLEAN, method : {"GET"}, body : {"none"} ]

\* the /api/chat requests: method, and for POST what request.json() finds:
\* text that is not JSON, JSON without messages, messages without a system
\* message, with one, with two
Requests ==
    { [ method |-> "GET", body |-> "none" ], [ method |-> "PUT", body |-> "none" ],
      [ method |-> "OPTIONS", body |-> "none" ],
      [ method |-> "POST", body |-> "invalid" ], [ method |-> "POST", body |-> "empty" ],
      [ method |-> "POST", body |-> "messages" ], [ method |-> "POST", body |-> "withSystem" ],
      [ method |-> "POST", body |-> "twoSystems" ] }

Message(role, content) == [ role |-> role, content |-> content ]

\* body?.messages when it is an array, else []: index.ts:170-171; for POST,
\* `request.json().catch(() => ({}))` turns a body that is not JSON into {}
userMsgs(c) ==
    CASE c.body = "messages" -> << Message("user", "posted") >>
      [] c.body = "withSystem" -> << Message("system", "posted"), Message("user", "posted") >>
      [] c.body = "twoSystems" ->
            << Message("system", "posted"), Message("user", "posted"),
               Message("system", "posted again") >>
      [] OTHER -> << >>

\* messages.some((m) => m.role === "system")
someSystem(messages) == \E i \in 1..Len(messages) : messages[i].role = "system"

\* `messages`, index.ts:165-175
messagesOf(c) ==
    IF c.method = "GET"
    THEN << Message("system", "SYSTEM_PROMPT"), Message("user", "q") >>
    ELSE LET messages ==
                 IF Len(userMsgs(c)) > 0 THEN userMsgs(c) ELSE << Message("user", "Hello") >>
         IN  IF ~someSystem(messages)
             THEN << Message("system", "SYSTEM_PROMPT") >> \o messages
             ELSE messages

\* the request gets past index.ts:166-178
opensStream(c) == c.method \in {"GET", "POST"}

HttpResponse(status, type) == [ status |-> status, type |-> type ]
\* new Response(stream, { headers: SSE_HEADERS })
StreamResponse == HttpResponse(200, "text/event-stream; charset=utf-8")
\* json({ error: "Method not allowed" }, 405)
MethodNotAllowed == HttpResponse(405, "application/json")
\* the CORS preflight answer, new Response(null, { headers }): status 200, no
\* content-type (index.ts:95-104)
Preflight == HttpResponse(200, "")

\* a payload is the JSON object sent upstream: field name -> value
PayloadValue(c, f) ==
    CASE f = "model" -> c.model
      [] f = "input" -> messagesOf(c)
      [] f = "stream" -> "true"
      [] f = "max_output_tokens" -> "1024"
      [] f = "seed" -> c.seed
      [] f = "temperature" -> "0.7"
      [] f = "top_p" -> "1.0"
      [] f = "reasoning" -> "effort:medium"
      [] f = "tools" -> "web_search_preview_2025_03_11"
      [] f = "tool_choice" -> "auto"

MakePayload(c, fields) == [ f \in fields |-> PayloadValue(c, f) ]

\* basePayload with reasoning set whatever the model
basePayloadFields_reasoningAlways(c) ==
    {"model", "input", "stream", "max_output_tokens", "reasoning"}
      \cup (IF seedValid(c.seed) THEN {"seed"} ELSE {})
      \cup (IF supportsSampling(c.model) THEN {"temperature", "top_p"} ELSE {})
      \cup (IF c.enableTools /\ c.model \in TOOL_MODELS THEN {"tools", "tool_choice"} ELSE {})

basePayloadFields(c) ==
    {"model", "input", "stream", "max_output_tokens"}
      \cup (IF seedValid(c.seed) THEN {"seed"} ELSE {})
      \cup (IF supportsSampling(c.model) THEN {"temperature", "top_p"} ELSE {"reasoning"})
      \cup (IF c.enableTools /\ c.model \in TOOL_MODELS THEN {"tools", "tool_choice"} ELSE {})

basePayload(c) == MakePayload(c, basePayloadFields(c))

retryPayloadFields(c) ==
    {"model", "input", "stream", "max_output_tokens"}
      \cup (IF seedValid(c.seed) THEN {"seed"} ELSE {})

retryPayload(c) == MakePayload(c, retryPayloadFields(c))

\* a fallback that resends the first payload with only stream switched off
fallbackPayload_keepsTools(c) ==
    [ basePayload(c) EXCEPT !["stream"] = "false" ]

fallbackPayload(c) ==
    [ MakePayload(c, retryPayloadFields(c)) EXCEPT !["stream"] = "false" ]

StreamReq(p) == [ kind |-> "stream", payload |-> p ]
FallbackReq(p) == [ kind |-> "fallback", payload |-> p ]

(***************************************************************************)
(* Upstream responses to the streaming request, and the patterns of the    *)
(* 400 auto-retry (index.ts:421-440).                                      *)
(***************************************************************************)
B_TEMPERATURE == "Unsupported parameter: 'temperature'"
B_TOP_P == "Unsupported parameter: 'top_p'"
B_REASONING == "Unsupported parameter: 'reasoning.effort'"
B_UNKNOWN_TOOL == "Unknown tool: web_search_preview"
B_TOOLS_VALUE == "Invalid value. param: tools[0].type, code: invalid_value"
B_QUOTA == "You exceeded your current quota"

Bodies == { B_TEMPERATURE, B_TOP_P, B_REASONING, B_UNKNOWN_TOOL, B_TOOLS_VALUE, B_QUOTA }

\* regex.test(lower) for the patterns of index.ts:426-438, on Bodies and ""
Has(detail, pat) ==
    CASE pat = "invalid_value" -> detail \in {B_TOOLS_VALUE}
      [] pat = "tools" -> detail \in {B_TOOLS_VALUE}
      [] pat = "tool" -> detail \in {B_TOOLS_VALUE, B_UNKNOWN_TOOL}
      [] pat = "not supported with" -> FALSE
      [] pat = "unsupported" -> detail \in {B_TEMPERATURE, B_TOP_P, B_REASONING}
      [] pat = "unknown tool" -> detail \in {B_UNKNOWN_TOOL}
      [] pat = "param" -> detail \in {B_TEMPERATURE, B_TOP_P, B_REASONING, B_TOOLS_VALUE}
      [] pat = "temperature|top_p" -> detail \in {B_TEMPERATURE, B_TOP_P}
      [] pat = "reasoning.effort" -> detail \in {B_REASONING}

toolsProblem(status, detail) ==
    status = 400 /\
      ( (Has(detail, "invalid_value") /\ Has(detail, "tools"))
        \/ (Has(detail, "not supported with") /\ Has(detail, "tool"))
        \/ (Has(detail, "unsupported") /\ Has(detail, "tool"))
        \/ Has(detail, "unknown tool")
        \/ (Has(detail, "param") /\ Has(detail, "tools")) )

\* badSampling without the test of the status
badSampling_anyStatus(status, detail) ==
    Has(detail, "unsupported") /\ Has(detail, "temperature|top_p")

badSampling(status, detail) ==
    status = 400 /\ Has(detail, "unsupported") /\ Has(detail, "temperature|top_p")

badReasoning(status, detail) ==
    status = 400 /\ Has(detail, "unsupported") /\ Has(detail, "reasoning.effort")

shouldRetry(status, detail) ==
    toolsProblem(status, detail) \/ badSampling(status, detail) \/ badReasoning(status, detail)

Response(status, hasBody, body) == [ status |-> status, hasBody |-> hasBody, body |-> body ]

\* Response.ok
ok(r) == r.status >= 200 /\ r.status <= 299

NoResponse == Response(0, FALSE, "")

\* what the scripted upstream may answer to a streaming request
Responses ==
    { Response(200, TRUE, "sse"), Response(204, FALSE, "") }
      \cup { Response(400, TRUE, b) : b \in Bodies }
      \cup { Response(429, TRUE, B_QUOTA), Response(500, TRUE, B_TEMPERATURE) }

(***************************************************************************)
(* Outgoing chunks (index.ts:29-34, 224-283).  A chunk is the JSON of one  *)
(* `data:` frame: id, choices[0].delta.role, choices[0].delta.content and  *)
(* choices[0].finish_reason; "" stands for an absent role or content.  The *)
(* Chinese notices of the source are written in English here.              *)
(***************************************************************************)
Chunk(id, role, content, finish) ==
    [ id |-> id, role |-> role, content |-> content, finish |-> finish ]

\* sseData of the role chunk, index.ts:224-230
RoleChunk == Chunk("cmpl-start", "assistant", "", "null")
\* sseData of a content chunk, index.ts:266-272
TextChunk(text) == Chunk("cmpl-chunk", "", text, "null")
\* sseData of the stop chunk, index.ts:275-281
StopChunk == Chunk("cmpl-stop", "", "", "stop")
\* sseDone(), index.ts:32-34
DoneFrame == Chunk("[DONE]", "", "", "")
ErrorChunk(text) == Chunk("cmpl-error", "", text, "null")
DumpChunk(text) == Chunk("cmpl-dump", "", text, "null")

T_HEARTBEAT == "(still searching and integrating, please wait)"
T_SEARCHING == "searching the web"
T_SYNTHESIZING == "results obtained, integrating"
T_PROGRESS == "(search in progress)"
T_TIMEOUT == "backend connection timed out"
T_EVENT(type) == "(event: " \o type \o ")"
\* str.slice(0, n)
slice(str, n) == IF Len(str) <= n THEN str ELSE SubSeq(str, 1, n)

T_RAW(n, data) == "(RAW#" \o ToString(n) \o ")" \o slice(data, 300)
T_UPSTREAM_STATUS(status, detail) ==
    "Upstream " \o ToString(status) \o ": " \o slice(detail, 800)
T_UPSTREAM_ERROR(detail) == "Upstream error: " \o slice(detail, 800)
T_WORKER_ERROR(e) == "Worker error: " \o slice(e, 800)
T_FALLBACK_FAILED(txt) == "(non-streaming fallback failed)" \o slice(txt, 600)

(***************************************************************************)
(* Upstream lines, as readUpstream sees them after split("\n") and trim()  *)
(* (index.ts:299-312).  A data line carries the sentinel, a text that is   *)
(* not JSON, or a JSON object, given by the fields the translator reads.   *)
(***************************************************************************)
\* a field that is absent or not a string
Absent == "<absent>"

Line(k, name, raw, src, type, ev, delta, text, content, otext, done, status, ws) ==
    [ k |-> k, name |-> name, raw |-> raw, src |-> src, type |-> type, ev |-> ev,
      delta |-> delta, text |-> text, content |-> content, otext |-> otext,
      done |-> done, status |-> status, ws |-> ws ]

BlankLine == Line("blank", "", "", "", "", "", Absent, Absent, Absent, "", FALSE, "", FALSE)
CommentLine == Line("other", "", "", ": ping", "", "", Absent, Absent, Absent, "", FALSE, "", FALSE)
EventLine(name) == Line("event", name, "", "", "", "", Absent, Absent, Absent, "", FALSE, "", FALSE)
DoneLine == Line("data", "", "done", "[DONE]", "", "", Absent, Absent, Absent, "", FALSE, "", FALSE)
NonJsonLine == Line("data", "", "text", "ping", "", "", Absent, Absent, Absent, "", FALSE, "", FALSE)
\* data: {"type": type, "delta": delta}
DeltaLine(type, delta) ==
    Line("data", "", "json", "{delta:" \o delta \o "}", type, "", delta, Absent, Absent, "", FALSE, "", FALSE)
\* data: {"type": type}
TypedLine(type) ==
    Line("data", "", "json", "{type:" \o type \o "}", type, "", Absent, Absent, Absent, "", FALSE, "", FALSE)
\* data: {"type": type, "text": text}
TextLine(type, text) ==
    Line("data", "", "json", "{text:" \o text \o "}", type, "", Absent, text, Absent, "", FALSE, "", FALSE)
\* data: {"type": type, "response": {"tools": [{"type": "web_search_preview"}]}}
ToolsEchoLine(type) ==
    Line("data", "", "json", "{type:" \o type \o ",tools:web_search}", type, "", Absent, Absent, Absent, "", FALSE, "", TRUE)
\* data: {"type": type, "results": [r1, ..., rn]}
ResultsLine(type, n) ==
    Line("data", "", "json", "{type:" \o type \o ",results:" \o ToString(n) \o "}", type, "",
         Absent, Absent, Absent, "", FALSE, "", FALSE)
\* data: {"done": true}
DoneFlagLine ==
    Line("data", "", "json", "{done:true}", "", "", Absent, Absent, Absent, "", TRUE, "", FALSE)
\* data: {}
EmptyObjectLine ==
    Line("data", "", "json", "{}", "", "", Absent, Absent, Absent, "", FALSE, "", FALSE)

TY_TEXT_DELTA == "response.output_text.delta"
TY_TEXT_DONE == "response.output_text.done"
TY_TOOL_STARTED == "response.tool_call.started"
TY_TOOL_COMPLETED == "response.tool_call.completed"
TY_WS_SEARCHING == "response.web_search_call.searching"
TY_WS_COMPLETED == "response.web_search_call.completed"
TY_IN_PROGRESS == "response.in_progress"
TY_COMPLETED == "response.completed"
TY_CREATED == "response.created"
TY_TOOL_RESULTS == "response.tool_call.results"

\* String.endsWith and the regular expressions of index.ts:345-383, on the types above
endsWith(type, suffix) ==
    CASE suffix = ".delta" -> type \in {TY_TEXT_DELTA, "response.delta"}
      [] suffix = ".done" -> type \in {TY_TEXT_DONE}

\* /(tool_call|tool)\.(started|created)/i
reToolStarted(t) == t \in {TY_TOOL_STARTED}
\* /(tool_call|tool)\.(completed|finish|finished)/i
reToolCompleted(t) == t \in {TY_TOOL_COMPLETED}
\* /progress|working|searching|retrieving/i
reProgress(t) == t \in {TY_IN_PROGRESS, TY_WS_SEARCHING}
\* /web_search/.test(JSON.stringify(obj))
reWebSearch(obj) ==
    obj.ws \/ obj.type \in {TY_WS_SEARCHING, TY_WS_COMPLETED}
           \/ obj.ev \in {TY_WS_SEARCHING, TY_WS_COMPLETED}

(***************************************************************************)
(* The upstream body as bytes (index.ts:295-304).  A delivery is a         *)
(* sequence of units: a whole line, the head or the tail of a line that    *)
(* the network cut in two, or the newline that ends a line.                *)
(***************************************************************************)
Unit(l, part) == [ l |-> l, part |-> part ]
NL == Unit(BlankLine, "nl")

\* a decoder that forgets what it held back from the previous delivery
joinBuffer_noCarry(buf, d) == d

\* buffer += decoder.decode(value, { stream: true })
joinBuffer(buf, d) == buf \o d

\* buffer.split("\n"): the groups of units between the newlines; the last
\* group is what follows the last newline
RECURSIVE splitNL(_, _)
splitNL(units, cur) ==
    IF units = << >> THEN << cur >>
    ELSE IF Head(units).part = "nl" THEN << cur >> \o splitNL(Tail(units), << >>)
    ELSE splitNL(Tail(units), Append(cur, Head(units)))

\* a data line whose payload is cut short, and the rest of a cut line
CutDataLine == Line("data", "", "text", "<cut>", "", "", Absent, Absent, Absent, "", FALSE, "", FALSE)
CutOtherLine == Line("other", "", "", "<cut>", "", "", Absent, Absent, Absent, "", FALSE, "", FALSE)

\* the name of an event line whose tail is missing: a head is a line cut
\* inside its value, here five characters before its end
cutName(name) == slice(name, Len(name) - 5)

\* raw.trim() of a group of units, as the for loop reads it (index.ts:303-
\* 312).  The groups between two newlines of the deliveries are: nothing, a
\* whole line, the head of a line followed by its own tail, the head of a
\* line alone and the tail of a line alone.  A head keeps the field name of
\* its line: a cut data line is a data line whose payload is not JSON, a
\* cut event line is an event line with a cut name; a tail starts with
\* neither "data:" nor "event:".  No other group is given a reading.
parseLine(g) ==
    CASE g = << >> -> BlankLine
      [] Len(g) = 1 /\ g[1].part = "whole" -> g[1].l
      [] Len(g) = 2 /\ g[1].part = "head" /\ g[2] = Unit(g[1].l, "tail") -> g[1].l
      [] Len(g) = 1 /\ g[1].part = "head" ->
            CASE g[1].l.k = "data" -> CutDataLine
              [] g[1].l.k = "event" -> EventLine(cutName(g[1].l.name))
              [] OTHER -> CutOtherLine
      [] Len(g) = 1 /\ g[1].part = "tail" -> CutOtherLine

\* const lines = buffer.split("\n"); buffer = lines.pop() || ""
linesIn(units) ==
    LET groups == splitNL(units, << >>)
    IN  [ i \in 1..(Len(groups) - 1) |-> parseLine(groups[i]) ]

restIn(units) ==
    LET groups == splitNL(units, << >>)
    IN  groups[Len(groups)]

\* the bytes of complete lines
RECURSIVE unitsOf(_)
unitsOf(lines) ==
    IF lines = << >> THEN << >>
    ELSE << Unit(Head(lines), "whole"), NL >> \o unitsOf(Tail(lines))

\* what the upstream sends first when its previous delivery ended inside a
\* line: the rest of that line and its newline
completion(buf) ==
    IF buf = << >> THEN << >>
    ELSE IF buf[Len(buf)].part = "head" THEN << Unit(buf[Len(buf)].l, "tail"), NL >>
    ELSE << NL >>

\* a delivery that finishes the pending line and brings the lines ls; with
\* cut "head" or "whole" its last line is cut short or lacks its newline
deliveryUnits(buf, ls, cut) ==
    IF cut = "nl" THEN completion(buf) \o unitsOf(ls)
    ELSE completion(buf) \o unitsOf(SubSeq(ls, 1, Len(ls) - 1))
           \o << Unit(ls[Len(ls)], cut) >>

(***************************************************************************)
(* The translator.  Its closures write the task's variables; here they     *)
(* work on a record s of those variables and return the record after the   *)
(* call:                                                                   *)
(*   out, got (gotFirstText), last (lastTextTs), lastEvent, dump           *)
(*   (dumpCount), closed (readUpstream's `closed`), threw (calls on the    *)
(*   controller that threw), exc (an exception is propagating).            *)
(* w says whether the controller is writable: enqueue and close throw a    *)
(* TypeError once the stream is closed or cancelled.                       *)
(***************************************************************************)
\* controller.enqueue(chunk)
\* enqueue of chunks whose id carries the time they were made
enqueue_stamped(s, chunk, w) ==
    IF w THEN [ s EXCEPT !.out = Append(@, [ chunk EXCEPT !.id = @ \o "-" \o ToString(now) ]) ]
         ELSE [ s EXCEPT !.threw = @ + 1, !.exc = TRUE ]

enqueue(s, chunk, w) ==
    IF w THEN [ s EXCEPT !.out = Append(@, chunk) ]
         ELSE [ s EXCEPT !.threw = @ + 1, !.exc = TRUE ]

\* pushDelta with an over-eager duplicate filter: a text equal to the content
\* of the last chunk is not forwarded
pushDelta_dedupe(s, text, w) ==
    IF text = "" \/ s.out[Len(s.out)].content = text THEN s
    ELSE enqueue([ s EXCEPT !.got = TRUE, !.last = now ], TextChunk(text), w)

\* pushDelta without `lastTextTs = Date.now()`
pushDelta_noStamp(s, text, w) ==
    IF text = "" THEN s
    ELSE enqueue([ s EXCEPT !.got = TRUE ], TextChunk(text), w)

pushDelta(s, text, w) ==
    IF text = "" THEN s
    ELSE enqueue([ s EXCEPT !.got = TRUE, !.last = now ], TextChunk(text), w)

pushStop(s, w) ==
    LET s1 == enqueue(s, StopChunk, w)
    IN  IF s1.exc THEN s1 ELSE enqueue(s1, DoneFrame, w)

\* const type = (obj?.type || lastEvent || obj?.event || "").toString()
typeOf(obj, lastEv) ==
    IF obj.type # "" THEN obj.type
    ELSE IF lastEv # "" THEN lastEv
    ELSE obj.ev

isTextDelta(obj, type) ==
    endsWith(type, ".delta") \/ type = "response.delta" \/ obj.delta # Absent

\* the text of a delta record, index.ts:349-356
deltaText(obj) ==
    IF obj.delta # Absent THEN obj.delta
    ELSE IF obj.text # Absent THEN obj.text
    ELSE IF obj.content # Absent THEN obj.content
    ELSE obj.otext

isToolStart(obj, type) == reToolStarted(type) \/ reWebSearch(obj)

isCompletion(obj, type) ==
    endsWith(type, ".done") \/ type = "response.completed"
      \/ obj.done = TRUE \/ obj.status = "completed"

\* the body of `try { const obj = JSON.parse(dataStr); ... }`, index.ts:338-393
translateJson(obj, s, w, debugEvents) ==
    LET type == typeOf(obj, s.lastEvent)
    IN  IF isTextDelta(obj, type) THEN pushDelta(s, deltaText(obj), w)
        ELSE IF isToolStart(obj, type) THEN pushDelta(s, T_SEARCHING, w)
        ELSE IF reToolCompleted(type) THEN pushDelta(s, T_SYNTHESIZING, w)
        ELSE IF reProgress(type) THEN pushDelta(s, T_PROGRESS, w)
        ELSE IF isCompletion(obj, type) THEN
            LET s1 == pushStop(s, w)
            IN  IF s1.exc THEN s1 ELSE [ s1 EXCEPT !.closed = TRUE ]
        ELSE IF debugEvents /\ type # "" THEN pushDelta(s, T_EVENT(type), w)
        ELSE s

\* `catch { }` of index.ts:394: whatever the try block threw is dropped
swallow(s) == [ s EXCEPT !.exc = FALSE ]

\* the DEBUG_DUMP step, index.ts:315-330
dumpLine(l, s, w, debugDump) ==
    IF debugDump /\ s.dump < DUMP_LIMIT /\ l.raw # "done"
    THEN enqueue([ s EXCEPT !.dump = @ + 1 ], DumpChunk(T_RAW(s.dump + 1, l.src)), w)
    ELSE s

\* an iteration that, at the sentinel, emits the terminal chunk and goes on
processLine_noBreak(l, s, w, c) ==
    IF l.k = "event" THEN [ s EXCEPT !.lastEvent = l.name ]
    ELSE IF l.k # "data" THEN s
    ELSE LET s1 == dumpLine(l, s, w, c.debugDump)
         IN  IF s1.exc THEN s1
             ELSE IF l.raw = "done" THEN pushStop(s1, w)
             ELSE IF l.raw # "json" THEN s1
             ELSE swallow(translateJson(l, s1, w, c.debugEvents))

\* one iteration of `for (const raw of lines)`, index.ts:302-397
processLine(l, s, w, c) ==
    IF l.k = "event" THEN [ s EXCEPT !.lastEvent = l.name ]
    ELSE IF l.k # "data" THEN s
    ELSE LET s1 == dumpLine(l, s, w, c.debugDump)
         IN  IF s1.exc THEN s1
             ELSE IF l.raw = "done" THEN
                 LET s2 == pushStop(s1, w)
                 IN  IF s2.exc THEN s2 ELSE [ s2 EXCEPT !.closed = TRUE ]
             ELSE IF l.raw # "json" THEN s1
             ELSE swallow(translateJson(l, s1, w, c.debugEvents))

\* the for loop over the lines of one delivery: it ends at `break` (closed)
\* or when an exception leaves it
RECURSIVE processLines(_, _, _, _)
processLines(lines, s, w, c) ==
    IF lines = << >> \/ s.closed \/ s.exc THEN s
    ELSE processLines(Tail(lines), processLine(Head(lines), s, w, c), w, c)

\* history of the upstream: the delta strings of the text-delta records
isDeltaRecord(l) == l.k = "data" /\ l.raw = "json" /\ l.delta # Absent /\ l.delta # ""

RECURSIVE deltasOf(_)
deltasOf(lines) ==
    IF lines = << >> THEN << >>
    ELSE (IF isDeltaRecord(Head(lines)) THEN << Head(lines).delta >> ELSE << >>)
           \o deltasOf(Tail(lines))

allDeltaRecords(lines) ==
    \A i \in 1..Len(lines) : lines[i].k = "data" => isDeltaRecord(lines[i])

(***************************************************************************)
(* The ends of the async task (index.ts:449-491 and 563-605).              *)
(***************************************************************************)
\* String(e) of the exceptions the task can catch
E_ABORT == "AbortError: The operation was aborted"
E_TIMEOUT == "request-timeout"
E_NETWORK == "TypeError: Network connection lost"
E_STATE == "TypeError: Invalid state: the stream is not writable"

\* the test of the catch block without its second disjunct
isAbortError_nameOnly(e) == e \in {E_ABORT}

\* e?.name === "AbortError" || String(e).includes("request-timeout")
isAbortError(e) == e \in {E_ABORT, E_TIMEOUT}

\* controller.close(); ctl records that it was executed
closeController(s, w) ==
    IF w THEN [ s EXCEPT !.ctl = TRUE ]
         ELSE [ s EXCEPT !.threw = @ + 1, !.exc = TRUE ]

\* the catch block without the controller.close() of its last line
catchBlock_noClose(s, e, w) ==
    LET msg == IF isAbortError(e) THEN T_TIMEOUT ELSE T_WORKER_ERROR(e)
        s1 == enqueue(swallow(s), ErrorChunk(msg), w)
        s2 == IF s1.exc THEN s1 ELSE pushStop(s1, w)
    IN  IF s2.exc \/ ~isAbortError(e) THEN s2 ELSE closeController(s2, w)

\* the catch block, index.ts:574-605 (clearInterval(heartbeat) is in the actions)
catchBlock(s, e, w) ==
    LET msg == IF isAbortError(e) THEN T_TIMEOUT ELSE T_WORKER_ERROR(e)
        s1 == enqueue(swallow(s), ErrorChunk(msg), w)
        s2 == IF s1.exc THEN s1 ELSE pushStop(s1, w)
    IN  IF s2.exc THEN s2 ELSE closeController(s2, w)

\* index.ts:569-573, after readUpstream returned
finalStop(s, w) ==
    LET s1 == IF ~s.got THEN pushStop(s, w) ELSE s
    IN  IF s1.exc THEN s1 ELSE closeController(s1, w)

\* the error return without its pushStop("stop")
errorReturn_noStop(s, text, w) ==
    LET s1 == enqueue(s, ErrorChunk(text), w)
    IN  IF s1.exc THEN s1 ELSE closeController(s1, w)

\* the error chunk, the stop and the close of index.ts:450-466 and 473-489
errorReturn(s, text, w) ==
    LET s1 == enqueue(s, ErrorChunk(text), w)
        s2 == IF s1.exc THEN s1 ELSE pushStop(s1, w)
    IN  IF s2.exc THEN s2 ELSE closeController(s2, w)

\* a block of the try statement: what it throws goes to the catch block
tryOrCatch(s, w) == IF s.exc THEN catchBlock(s, E_STATE, w) ELSE s

(***************************************************************************)
(* State.                                                                  *)
(***************************************************************************)
writable == ~ctrlClosed /\ ~clientGone

\* the `upstream` variable of the task: the last response a fetch resolved with
upstream == IF replies = << >> THEN NoResponse ELSE replies[Len(replies)]

Local ==
    [ out |-> out, got |-> gotFirstText, last |-> lastTextTs, lastEvent |-> lastEvent,
      dump |-> dumpCount, closed |-> FALSE, threw |-> threw, exc |-> FALSE, ctl |-> FALSE ]

\* write the record back to the task's variables
Commit(s) ==
    /\ out' = s.out
    /\ gotFirstText' = s.got
    /\ lastTextTs' = s.last
    /\ lastEvent' = s.lastEvent
    /\ dumpCount' = s.dump
    /\ threw' = s.threw
    /\ ctrlClosed' = (ctrlClosed \/ s.ctl)
    /\ closeCalls' = closeCalls + (IF s.ctl THEN 1 ELSE 0)
    /\ lastContentAt' = (IF \E i \in (Len(out) + 1)..Len(s.out) : s.out[i].id = "cmpl-chunk"
                         THEN now ELSE lastContentAt)

\* the task is over: it returned, or an exception left its catch block
endOf(s) == IF s.exc THEN "died" ELSE "done"

\* the deliveries of at most n lines over the alphabet L
Deliveries(L, n) == UNION { [1..k -> L] : k \in 1..n }

\* lines of the scripted upstream in the stream specifications
CoreLines ==
    { DeltaLine(TY_TEXT_DELTA, "a"), DeltaLine(TY_TEXT_DELTA, "b"), DoneLine, NonJsonLine }

CoreConfig ==
    [ model |-> "gpt-4o", enableTools |-> TRUE, seed |-> "7",
      debugEvents |-> FALSE, debugDump |-> FALSE, method |-> "GET", body |-> "none" ]

\* answers of the scripted upstream in the stream specifications
CoreAnswers ==
    { Response(200, TRUE, "sse"), Response(204, FALSE, ""),
      Response(400, TRUE, B_TEMPERATURE), Response(500, TRUE, B_TEMPERATURE) }

\* every kind of line the translator tells apart
AllLines ==
    { BlankLine, CommentLine, DoneLine, NonJsonLine, EmptyObjectLine, DoneFlagLine,
      EventLine(TY_TEXT_DELTA), EventLine(TY_COMPLETED),
      DeltaLine(TY_TEXT_DELTA, "a"), DeltaLine(TY_TEXT_DELTA, ""), DeltaLine("", "b"),
      TextLine(TY_TEXT_DELTA, "b"), TextLine(TY_TEXT_DONE, "ab"),
      TypedLine(TY_TOOL_STARTED), TypedLine(TY_TOOL_COMPLETED), TypedLine(TY_WS_SEARCHING),
      TypedLine(TY_WS_COMPLETED), TypedLine(TY_IN_PROGRESS), TypedLine(TY_COMPLETED),
      TypedLine(TY_CREATED), ToolsEchoLine(TY_COMPLETED) }

\* lines of the scripted upstream in the specification of the tool notices
ToolLines ==
    { TypedLine(TY_TOOL_STARTED), TypedLine(TY_IN_PROGRESS),
      DeltaLine(TY_TEXT_DELTA, "a"), DoneLine }

\* lines of the scripted upstream when it cuts lines across deliveries
ByteLines == { DeltaLine(TY_TEXT_DELTA, "a"), DeltaLine(TY_TEXT_DELTA, "b"), DoneLine }

\* a web search as the upstream reports it: started, results, completed,
\* the answer, the sentinel
ParisLines ==
    << TypedLine(TY_TOOL_STARTED), ResultsLine(TY_TOOL_RESULTS, 3),
       TypedLine(TY_TOOL_COMPLETED), DeltaLine(TY_TEXT_DELTA, "Paris"), DoneLine >>

\* a frame with an event name and no type, a blank line, then a frame with
\* neither
StaleLines == << EventLine(TY_TOOL_STARTED), EmptyObjectLine, BlankLine, EmptyObjectLine >>

\* text, then the completion record that echoes the tools of the request
EchoLines == << DeltaLine(TY_TEXT_DELTA, "a"), ToolsEchoLine(TY_COMPLETED) >>

\* two words with a space and an empty delta between them
SpacedLines ==
    << DeltaLine(TY_TEXT_DELTA, "a"), DeltaLine(TY_TEXT_DELTA, " "),
       DeltaLine(TY_TEXT_DELTA, ""), DeltaLine(TY_TEXT_DELTA, "b") >>

\* the upstreams that send one given sequence of lines, by name
FixedScripts ==
    [ paris |-> ParisLines, stale |-> StaleLines, echo |-> EchoLines, spaced |-> SpacedLines ]

\* the alphabets of the scripted upstream, by name
linesOf(name) ==
    CASE name = "core" -> CoreLines
      [] name = "all" -> AllLines
      [] name = "tools" -> ToolLines
      [] name = "bytes" -> ByteLines
answersOf(name) == CASE name = "core" -> CoreAnswers [] name = "all" -> Responses

InitScript(c, sc, n) ==
    /\ cfg = c
    /\ http = StreamResponse
    /\ script = sc
    /\ now = 0
    /\ pc = "fetch1"
    /\ replies = << >>
    /\ firstDetail = Absent
    /\ fallback = NoResponse
    /\ reqs = << StreamReq(basePayload(c)) >>
    /\ out = << RoleChunk >>
    /\ ctrlClosed = FALSE
    /\ closeCalls = 0
    /\ clientGone = FALSE
    /\ threw = 0
    /\ aborted = "no"
    /\ toTimer = "armed"
    /\ hbOn = TRUE
    /\ hbDue = HEARTBEAT_MS
    /\ ranAfterClose = {}
    /\ wd = "unset"
    /\ wdDue = 0
    /\ lastTextTs = 0
    /\ gotFirstText = FALSE
    /\ lastEvent = ""
    /\ dumpCount = 0
    /\ linesLeft = n
    /\ buffer = << >>
    /\ eof = FALSE
    /\ upBytes = << >>
    /\ readsIssued = 0
    /\ cancelSnap = [ pc |-> "", reqs |-> 0, reads |-> 0 ]
    /\ lastContentAt = 0
    /\ upDeltas = << >>
    /\ onlyDeltas = TRUE
    /\ OthersIdle

\* no stream of /api/chat: no task, no timer, no upstream request; h is the
\* response returned
NoStream(c, sc, h) ==
    /\ cfg = c
    /\ http = h
    /\ script = sc
    /\ now = 0
    /\ pc = "done"
    /\ replies = << >>
    /\ firstDetail = Absent
    /\ fallback = NoResponse
    /\ reqs = << >>
    /\ out = << >>
    /\ ctrlClosed = FALSE
    /\ closeCalls = 0
    /\ clientGone = FALSE
    /\ threw = 0
    /\ aborted = "no"
    /\ toTimer = "unset"
    /\ hbOn = FALSE
    /\ hbDue = 0
    /\ ranAfterClose = {}
    /\ wd = "unset"
    /\ wdDue = 0
    /\ lastTextTs = 0
    /\ gotFirstText = FALSE
    /\ lastEvent = ""
    /\ dumpCount = 0
    /\ linesLeft = 0
    /\ buffer = << >>
    /\ eof = FALSE
    /\ upBytes = << >>
    /\ readsIssued = 0
    /\ cancelSnap = [ pc |-> "", reqs |-> 0, reads |-> 0 ]
    /\ lastContentAt = 0
    /\ upDeltas = << >>
    /\ onlyDeltas = TRUE

\* the request was answered without a stream: OPTIONS before routing
\* (index.ts:95-104), any other method but GET and POST at index.ts:177
InitRejected(c, sc) ==
    /\ NoStream(c, sc, IF c.method = "OPTIONS" THEN Preflight ELSE MethodNotAllowed)
    /\ OthersIdle

\* an upstream that delivers whole lines of the alphabet L and answers from A
InitWith(c, L, n, A) == InitScript(c, [ lines |-> L, answers |-> A, cut |-> FALSE ], n)

\* the state when start() returns: role chunk enqueued, both timers armed,
\* the first fetch issued (index.ts:222-418)
Init == InitWith(CoreConfig, "core", MaxUpstreamLines, "core")

(***************************************************************************)
(* Continuations of the async task.  Each gives the outcome of running the *)
(* task from one await to the next: the translator record s, the next pc,  *)
(* which timers the run cleared, and the requests it issued.               *)
(***************************************************************************)
Outcome(s, p, clrHB, clrTO, clrWD, req) ==
    [ s |-> s, pc |-> p, clrHB |-> clrHB, clrTO |-> clrTO, clrWD |-> clrWD, req |-> req ]

\* the task is not resumed in this turn
Idle == Outcome(Local, pc, FALSE, FALSE, FALSE, << >>)

\* a catch block without its clearInterval(heartbeat)
onCatch_keepsHeartbeat(s, e) ==
    LET s1 == catchBlock(s, e, writable)
    IN  Outcome(s1, endOf(s1), FALSE, FALSE, FALSE, << >>)

\* an awaited fetch or read rejected with e: index.ts:574-605
onCatch(s, e) ==
    LET s1 == catchBlock(s, e, writable)
    IN  Outcome(s1, endOf(s1), TRUE, FALSE, FALSE, << >>)

\* firstDetail is known: index.ts:423-468
onErrBody1Of(r, detail) ==
    IF shouldRetry(r.status, detail)
    THEN Outcome(Local, "fetch2", FALSE, FALSE, FALSE, << StreamReq(retryPayload(cfg)) >>)
    ELSE LET s0 == errorReturn(Local, T_UPSTREAM_STATUS(r.status, detail), writable)
             s1 == tryOrCatch(s0, writable)
         IN  Outcome(s1, endOf(s1), TRUE, ~s0.exc, FALSE, << >>)

onErrBody1(detail) == onErrBody1Of(upstream, detail)

\* detail is known: index.ts:472-490
onErrBody2(detail) ==
    LET s0 == errorReturn(Local, T_UPSTREAM_ERROR(detail), writable)
        s1 == tryOrCatch(s0, writable)
    IN  Outcome(s1, endOf(s1), TRUE, ~s0.exc, FALSE, << >>)

\* readUpstream returned: index.ts:565-573
onReadReturn(s) ==
    LET s1 == tryOrCatch(finalStop(s, writable), writable)
    IN  Outcome(s1, endOf(s1), TRUE, TRUE, TRUE, << >>)

\* reader.read() resolved with the lines of one delivery: index.ts:295-399
onReadData(lines) ==
    LET s0 == processLines(lines, Local, writable, cfg)
    IN  IF s0.exc THEN onCatch(s0, E_STATE)
        ELSE IF s0.closed THEN onReadReturn(s0)
        ELSE Outcome(s0, "reading", FALSE, FALSE, FALSE, << >>)

\* the signal of upstreamCtl fired with reason e while the task awaits
onAbort(e) ==
    CASE pc \in {"fetch1", "fetch2", "reading"} -> onCatch(Local, e)
      [] pc = "errbody1" -> onErrBody1("")
      [] pc = "errbody2" -> onErrBody2("")
      [] OTHER -> Idle

clearTimer(t) == IF t = "armed" THEN "cleared" ELSE t

\* the variables the task writes, except the timers and reqs
Apply(o) ==
    /\ Commit(o.s)
    /\ pc' = o.pc
    /\ hbOn' = (hbOn /\ ~o.clrHB)

\* a turn of the task alone
ApplyMain(o) ==
    /\ Apply(o)
    /\ reqs' = reqs \o o.req
    /\ toTimer' = (IF o.clrTO THEN clearTimer(toTimer) ELSE toTimer)
    /\ wd' = (IF o.clrWD THEN clearTimer(wd) ELSE wd)

(***************************************************************************)
(* Actions of the async task.                                              *)
(***************************************************************************)
fixed == << cfg, http, script, others >>
hist == << upDeltas, onlyDeltas >>
timers == << toTimer, hbOn, hbDue, wd, wdDue >>
translatorVars == << out, ctrlClosed, closeCalls, threw, lastTextTs, gotFirstText,
                     lastEvent, dumpCount, lastContentAt >>

\* `upstream = await fetch(...)` resolved with r (index.ts:413 and 443); with
\* an OK response that has a body the task arms firstPacketTimer and calls
\* readUpstream, which issues the first read (index.ts:495-564, 295); with
\* another response that has a body it awaits the text of the body; without
\* a body that text is "" at once and the task runs on to its error return
AfterResponse(r, first) ==
    /\ replies' = Append(replies, r)
    /\ IF ok(r) /\ r.hasBody
       THEN /\ pc' = "reading"
            /\ wd' = "armed"
            /\ wdDue' = now + FIRST_PACKET_MS
            /\ readsIssued' = readsIssued + 1
            /\ UNCHANGED << translatorVars, reqs, toTimer, hbOn, firstDetail >>
       ELSE IF r.hasBody
       THEN /\ pc' = (IF first /\ ~ok(r) THEN "errbody1" ELSE "errbody2")
            /\ UNCHANGED << translatorVars, reqs, toTimer, hbOn, firstDetail,
                            wd, wdDue, readsIssued >>
       ELSE \* text() of a response without body resolves to "" in this turn
            /\ IF first /\ ~ok(r)
               THEN ApplyMain(onErrBody1Of(r, "")) /\ firstDetail' = ""
               ELSE ApplyMain(onErrBody2("")) /\ UNCHANGED firstDetail
            /\ UNCHANGED << wdDue, readsIssued >>
    /\ UNCHANGED << fixed, hist, now, clientGone, aborted, hbDue, ranAfterClose, linesLeft,
                    buffer, eof, upBytes, cancelSnap, fallback >>

Fetch1Resolve ==
    /\ pc = "fetch1"
    /\ \E r \in answersOf(script.answers) : AfterResponse(r, TRUE)

Fetch2Resolve ==
    /\ pc = "fetch2"
    /\ \E r \in answersOf(script.answers) : AfterResponse(r, FALSE)

\* a fetch of the task rejected with a network error
FetchReject ==
    /\ pc \in {"fetch1", "fetch2"}
    /\ ApplyMain(onCatch(Local, E_NETWORK))
    /\ UNCHANGED << fixed, hist, now, replies, firstDetail, fallback, clientGone, aborted, hbDue, wdDue,
                    ranAfterClose, linesLeft, buffer, eof, upBytes, readsIssued, cancelSnap >>

\* `await upstream.text().catch(() => "")` of index.ts:422 settled
ErrBody1Done ==
    /\ pc = "errbody1"
    /\ \E detail \in {upstream.body, ""} :
          ApplyMain(onErrBody1(detail)) /\ firstDetail' = detail
    /\ UNCHANGED << fixed, hist, now, replies, fallback, clientGone, aborted, hbDue, wdDue,
                    ranAfterClose, linesLeft, buffer, eof, upBytes, readsIssued, cancelSnap >>

\* `await upstream.text().catch(() => "")` of index.ts:472 settled
ErrBody2Done ==
    /\ pc = "errbody2"
    /\ \E detail \in {upstream.body, ""} : ApplyMain(onErrBody2(detail))
    /\ UNCHANGED << fixed, hist, now, replies, firstDetail, fallback, clientGone, aborted, hbDue, wdDue,
                    ranAfterClose, linesLeft, buffer, eof, upBytes, readsIssued, cancelSnap >>

\* the line sequences the scripted upstream may send next
Upcoming ==
    {<< >>} \cup
    ( IF script.lines \in DOMAIN FixedScripts
      THEN LET seq == FixedScripts[script.lines]
               pos == Len(seq) - linesLeft
           IN  { SubSeq(seq, pos + 1, pos + k) : k \in 1..linesLeft }
      ELSE Deliveries(linesOf(script.lines), linesLeft) )

\* how the delivery of ls may end: with the newline of its last line, or, when
\* the script cuts lines, inside the last line or right before its newline
Cuts(ls) == IF script.cut /\ ls # << >> THEN {"nl", "head", "whole"} ELSE {"nl"}

\* reader.read() resolved with a chunk of bytes
ReadData ==
    /\ pc = "reading"
    /\ \E ls \in Upcoming : \E cut \in Cuts(ls) :
          LET d == deliveryUnits(buffer, ls, cut)
              bytes == joinBuffer(buffer, d)
              lines == linesIn(bytes)
              o == onReadData(lines)
          IN  /\ d # << >>
              /\ ApplyMain(o)
              /\ buffer' = restIn(bytes)
              /\ readsIssued' = readsIssued + (IF o.pc = "reading" THEN 1 ELSE 0)
              /\ upDeltas' = upDeltas \o deltasOf(lines)
              /\ onlyDeltas' = (onlyDeltas /\ allDeltaRecords(lines))
              /\ linesLeft' = linesLeft - Len(ls)
              /\ upBytes' = (IF script.cut THEN upBytes \o d ELSE upBytes)
    /\ UNCHANGED << fixed, now, replies, firstDetail, fallback, clientGone, aborted, hbDue, wdDue,
                    ranAfterClose, cancelSnap, eof >>

\* reader.read() resolved with done: true (upstream EOF)
ReadEOF ==
    /\ pc = "reading"
    /\ ApplyMain(onReadReturn(Local))
    /\ eof' = TRUE
    /\ UNCHANGED << upBytes, buffer, fixed, hist, now, replies, firstDetail, fallback, clientGone, aborted, hbDue, wdDue,
                    ranAfterClose, linesLeft, readsIssued, cancelSnap >>

\* reader.read() rejected: the upstream connection dropped mid-stream
ReadError ==
    /\ pc = "reading"
    /\ ApplyMain(onCatch(Local, E_NETWORK))
    /\ UNCHANGED << fixed, hist, now, replies, firstDetail, fallback, clientGone, aborted, hbDue, wdDue,
                    ranAfterClose, linesLeft, buffer, eof, upBytes, readsIssued, cancelSnap >>

(***************************************************************************)
(* Timers.  A callback runs when the clock has reached its due time and    *)
(* before the clock moves on; callbacks run in the order of their due      *)
(* times.                                                                  *)
(***************************************************************************)
toDue == REQUEST_TIMEOUT_MS

\* no armed timer is due before time d
noneBefore(d) ==
    /\ toTimer = "armed" => toDue >= d
    /\ hbOn => hbDue >= d
    /\ wd = "armed" => wdDue >= d

afterClose(name) == IF ctrlClosed THEN ranAfterClose \cup {name} ELSE ranAfterClose

\* setTimeout(() => upstreamCtl.abort("request-timeout"), 45000), index.ts:236
TimeoutFire ==
    /\ toTimer = "armed"
    /\ now >= toDue
    /\ noneBefore(toDue)
    /\ toTimer' = "fired"
    /\ ranAfterClose' = afterClose("timeout")
    /\ IF aborted = "no"
       THEN /\ aborted' = E_TIMEOUT
            /\ LET o == onAbort(E_TIMEOUT)
               IN  Apply(o) /\ reqs' = reqs \o o.req
            /\ firstDetail' = (IF pc = "errbody1" THEN "" ELSE firstDetail)
       ELSE /\ Apply(Idle)
            /\ UNCHANGED << aborted, reqs, firstDetail >>
    /\ UNCHANGED << fixed, hist, now, replies, fallback, clientGone, hbDue, wd, wdDue,
                    linesLeft, buffer, eof, upBytes, readsIssued, cancelSnap >>

\* the heartbeat interval callback, index.ts:241-258
HeartbeatFire ==
    /\ hbOn
    /\ now >= hbDue
    /\ noneBefore(hbDue)
    /\ hbDue' = now + HEARTBEAT_MS
    /\ ranAfterClose' = afterClose("heartbeat")
    /\ IF now - lastTextTs > HEARTBEAT_MS
       THEN LET s == enqueue(Local, TextChunk(T_HEARTBEAT), writable)
            IN  Commit(IF s.exc THEN s ELSE [ s EXCEPT !.last = now ])
       ELSE Commit(Local)
    /\ UNCHANGED << fixed, hist, now, pc, replies, firstDetail, fallback, reqs, clientGone, aborted,
                    toTimer, hbOn, wd, wdDue, linesLeft, buffer, eof, upBytes, readsIssued, cancelSnap >>

(***************************************************************************)
(* The first-packet watchdog and its non-streaming fallback                *)
(* (index.ts:493-561).                                                     *)
(***************************************************************************)
FB_OUTPUT == "{output:[{content:[{text:fallback answer}]}]}"
FB_CHOICES == "{choices:[{message:{content:fallback answer}}]}"
FB_PLAIN == "fallback answer, not JSON"
FB_ERROR == "{error:{message:server error}}"

\* what the scripted upstream may answer to the fallback request
FallbackResponses ==
    { Response(200, TRUE, FB_OUTPUT), Response(200, TRUE, FB_CHOICES),
      Response(200, TRUE, FB_PLAIN), Response(200, TRUE, ""), Response(500, TRUE, FB_ERROR) }

\* the text the callback extracts from the body, index.ts:539-548
fallbackOut(txt) ==
    IF txt \in {FB_OUTPUT, FB_CHOICES} THEN "fallback answer" ELSE slice(txt, 2000)

\* the callback from `const txt = ...` to its end, index.ts:517-560
fallbackDeliver(s, r, txt, w) ==
    IF ~ok(r) \/ txt = ""
    THEN errorReturn(s, T_FALLBACK_FAILED(txt), w)
    ELSE LET s1 == enqueue(s, TextChunk(fallbackOut(txt)), w)
             s2 == IF s1.exc THEN s1 ELSE pushStop(s1, w)
         IN  IF s2.exc THEN s2 ELSE closeController(s2, w)

\* the callback without its `if (gotFirstText) return`
WatchdogFire_noTextCheck ==
    /\ wd = "armed"
    /\ now >= wdDue
    /\ noneBefore(wdDue)
    /\ ranAfterClose' = afterClose("watchdog")
    /\ IF FALSE
       THEN /\ wd' = "returned"
            /\ Apply(Idle)
            /\ UNCHANGED << aborted, reqs >>
       ELSE /\ wd' = "fetching"
            /\ aborted' = (IF aborted = "no" THEN E_ABORT ELSE aborted)
            /\ LET o == IF aborted = "no" THEN onAbort(E_ABORT) ELSE Idle
               IN  /\ Apply(o)
                   /\ reqs' = (reqs \o << FallbackReq(fallbackPayload(cfg)) >>) \o o.req
    /\ UNCHANGED << fixed, hist, now, replies, firstDetail, fallback, clientGone, toTimer, hbDue, wdDue,
                    linesLeft, buffer, eof, upBytes, readsIssued, cancelSnap >>

\* the callback of firstPacketTimer up to `await fetch(...)`, index.ts:495-515.
\* abort() errors the upstream body, so the read the task awaits rejects in
\* the same turn and the task runs its catch block.
WatchdogFire ==
    /\ wd = "armed"
    /\ now >= wdDue
    /\ noneBefore(wdDue)
    /\ ranAfterClose' = afterClose("watchdog")
    /\ IF gotFirstText
       THEN /\ wd' = "returned"
            /\ Apply(Idle)
            /\ UNCHANGED << aborted, reqs >>
       ELSE /\ wd' = "fetching"
            /\ aborted' = (IF aborted = "no" THEN E_ABORT ELSE aborted)
            /\ LET o == IF aborted = "no" THEN onAbort(E_ABORT) ELSE Idle
               IN  /\ Apply(o)
                   /\ reqs' = (reqs \o << FallbackReq(fallbackPayload(cfg)) >>) \o o.req
    /\ UNCHANGED << fixed, hist, now, replies, firstDetail, fallback, clientGone, toTimer, hbDue, wdDue,
                    linesLeft, buffer, eof, upBytes, readsIssued, cancelSnap >>

\* `const r = await fetch(...)` of the callback resolved with r
\* (index.ts:507-517): the callback calls r.text() and awaits it
FallbackResolve ==
    /\ wd = "fetching"
    /\ \E r \in FallbackResponses : fallback' = r
    /\ wd' = "text"
    /\ UNCHANGED << fixed, hist, translatorVars, now, pc, replies, firstDetail, reqs, clientGone,
                    aborted, toTimer, hbOn, hbDue, wdDue, ranAfterClose, linesLeft, buffer, eof,
                    upBytes, readsIssued, cancelSnap >>

\* `await r.text().catch(() => "")` gave txt; the callback runs to its end
\* (index.ts:517-560).  An exception leaves the async callback as an
\* unhandled rejection.
FallbackDone ==
    /\ wd = "text"
    /\ \E txt \in {fallback.body, ""} :
          LET s == fallbackDeliver(Local, fallback, txt, writable)
          IN  /\ Commit(s)
              /\ wd' = (IF s.exc THEN "threw" ELSE "done")
              /\ hbOn' = (hbOn /\ s.exc)
              /\ toTimer' = (IF s.exc THEN toTimer ELSE clearTimer(toTimer))
              /\ fallback' = Response(fallback.status, TRUE, txt)
    /\ UNCHANGED << fixed, hist, now, pc, replies, firstDetail, reqs, clientGone, aborted, hbDue,
                    wdDue, ranAfterClose, linesLeft, buffer, eof, upBytes, readsIssued, cancelSnap >>

\* the fallback fetch rejected with a network error
FallbackReject ==
    /\ wd = "fetching"
    /\ wd' = "threw"
    /\ UNCHANGED << fixed, hist, translatorVars, now, pc, replies, firstDetail, fallback, reqs, clientGone,
                    aborted, toTimer, hbOn, hbDue, wdDue, ranAfterClose, linesLeft, buffer, eof, upBytes,
                    readsIssued, cancelSnap >>

(***************************************************************************)
(* The environment: the clock and the client.                              *)
(***************************************************************************)
\* something of the request is still pending
Active ==
    \/ pc \notin {"done", "died"}
    \/ hbOn
    \/ toTimer = "armed"
    \/ wd \in {"armed", "fetching", "text"}

\* some armed timer is due
timerDue ==
    \/ toTimer = "armed" /\ now >= toDue
    \/ hbOn /\ now >= hbDue
    \/ wd = "armed" /\ now >= wdDue

Tick ==
    /\ Active
    /\ ~timerDue
    /\ now < Horizon
    /\ now' = now + Grain
    /\ UNCHANGED << fixed, hist, translatorVars, pc, replies, firstDetail, fallback, reqs, clientGone,
                    aborted, timers, ranAfterClose, linesLeft, buffer, eof, upBytes, readsIssued, cancelSnap >>

\* the client cancels the outgoing stream; the ReadableStream of index.ts:221
\* has no cancel hook, so nothing of the worker runs
ClientCancel ==
    /\ ~clientGone
    /\ ~ctrlClosed
    /\ clientGone' = TRUE
    /\ cancelSnap' = [ pc |-> pc, reqs |-> Len(reqs), reads |-> readsIssued ]
    /\ UNCHANGED << fixed, hist, translatorVars, now, pc, replies, firstDetail, fallback, reqs, aborted,
                    timers, ranAfterClose, linesLeft, buffer, eof, upBytes, readsIssued >>

TaskStep ==
    \/ Fetch1Resolve
    \/ Fetch2Resolve
    \/ FetchReject
    \/ ErrBody1Done
    \/ ErrBody2Done
    \/ ReadData
    \/ ReadEOF
    \/ ReadError

TimerStep ==
    \/ TimeoutFire
    \/ HeartbeatFire
    \/ WatchdogFire
    \/ FallbackResolve
    \/ FallbackDone
    \/ FallbackReject

Next == TaskStep \/ TimerStep \/ Tick

\* a request whose client stays connected
Spec == Init /\ [][Next]_vars

\* the runtime runs every timer callback that is due and the clock advances;
\* nothing is assumed of the upstream, whose fetches and reads may stall
Fairness ==
    /\ WF_vars(TimeoutFire)
    /\ WF_vars(HeartbeatFire)
    /\ WF_vars(WatchdogFire)
    /\ WF_vars(Tick)

SpecLive == Init /\ [][Next]_vars /\ Fairness

NextCancel == Next \/ ClientCancel

InitCancel == InitWith(CoreConfig, "core", MaxCancelLines, "core")

\* a request whose client may cancel the outgoing stream
SpecCancel == InitCancel /\ [][NextCancel]_vars

\* the configurations of the requests of SpecRetry: the debug flags are off
RetryConfigs == { c \in Configs : ~c.debugEvents /\ ~c.debugDump }

InitRetry == \E c \in RetryConfigs : InitWith(c, "core", MaxRetryLines, "all")

\* requests under every configuration, answered in every way
SpecRetry == InitRetry /\ [][Next]_vars

\* any /api/chat request, under the core configuration
InitRequest ==
    \E rq \in Requests :
        LET c == [ CoreConfig EXCEPT !.method = rq.method, !.body = rq.body ]
            sc == [ lines |-> "core", answers |-> "core", cut |-> FALSE ]
        IN  IF opensStream(c) THEN InitScript(c, sc, MaxRequestLines) ELSE InitRejected(c, sc)

SpecRequest == InitRequest /\ [][Next]_vars

InitTools == InitWith(CoreConfig, "tools", MaxUpstreamLines, "core")

\* a request whose upstream reports tool calls
SpecTools == InitTools /\ [][Next]_vars

InitParis == InitWith(CoreConfig, "paris", Len(ParisLines), "core")

\* a request whose upstream sends ParisLines, cut into deliveries at any line
SpecParis == InitParis /\ [][Next]_vars

\* a request whose upstream sends StaleLines, EchoLines or SpacedLines
InitScenes ==
    \E name \in {"stale", "echo", "spaced"} :
        InitWith(CoreConfig, name, Len(FixedScripts[name]), "core")

SpecScenes == InitScenes /\ [][Next]_vars

InitBytes ==
    InitScript(CoreConfig, [ lines |-> "bytes", answers |-> "core", cut |-> TRUE ], MaxByteLines)

\* a request whose upstream body is cut into deliveries anywhere
SpecBytes == InitBytes /\ [][Next]_vars

(***************************************************************************)
(* Properties.                                                             *)
(***************************************************************************)
stopsIn(q) == { i \in 1..Len(q) : q[i].finish = "stop" }
donesIn(q) == { i \in 1..Len(q) : q[i] = DoneFrame }
contentsOf(q, id) ==
    LET sel == SelectSeq(q, LAMBDA c : c.id = id)
    IN  [ i \in 1..Len(sel) |-> sel[i].content ]
streamReqs == SelectSeq(reqs, LAMBDA r : r.kind = "stream")
fallbackReqs == SelectSeq(reqs, LAMBDA r : r.kind = "fallback")
has(q, chunk) == \E i \in 1..Len(q) : q[i] = chunk

\* C1: when controller.close() has been executed, the stream holds exactly
\* one stop chunk and exactly one [DONE] frame, and the [DONE] frame comes
\* right after the stop chunk.
C1_OneStopThenDoneAtClose ==
    ctrlClosed =>
        /\ Cardinality(stopsIn(out)) = 1
        /\ Cardinality(donesIn(out)) = 1
        /\ \A i \in stopsIn(out) : i + 1 \in donesIn(out)

\* C2: nothing is enqueued after a [DONE] frame: a [DONE] frame is always
\* the last chunk of the stream.
C2_NothingAfterDone ==
    \A i \in donesIn(out) : i = Len(out)

\* C3: with the debug flags off, no heartbeat notice and no fallback text
\* in the stream, and an upstream that has sent only text-delta records with
\* non-empty delta strings, the content chunks of the stream carry exactly
\* those strings, one chunk per record, in the order of the records.
C3_DeltasForwardedInOrder ==
    ( /\ ~cfg.debugEvents /\ ~cfg.debugDump
      /\ onlyDeltas
      /\ ~has(out, TextChunk(T_HEARTBEAT))
      /\ wd # "done" )
    => contentsOf(out, "cmpl-chunk") = upDeltas

\* three records, not all with the same delta, have been forwarded
C3_Witness ==
    /\ onlyDeltas
    /\ Len(upDeltas) = 3
    /\ upDeltas[1] # upDeltas[2]
    /\ upDeltas[2] = upDeltas[3]
    /\ contentsOf(out, "cmpl-chunk") = upDeltas

\* C4: when the watchdog fired before any text was forwarded, the upstream
\* connection did not drop, and the fallback call has answered OK with a
\* non-empty body, the stream ends with the fallback text as one content
\* chunk, the stop chunk and [DONE].
C4_FallbackTextDelivered ==
    ( /\ wd \in {"done", "threw"}
      /\ ok(fallback) /\ fallback.body # ""
      /\ ~has(out, ErrorChunk(T_WORKER_ERROR(E_NETWORK))) )
    => /\ Len(out) >= 3
       /\ out[Len(out) - 2] = TextChunk(fallbackOut(fallback.body))
       /\ out[Len(out) - 1] = StopChunk
       /\ out[Len(out)] = DoneFrame

\* the payload p without the fields in drop
without(p, drop) == [ f \in (DOMAIN p) \ drop |-> p[f] ]

\* C5: when the first answer was a 400 whose body matches the
\* unsupported-sampling pattern, the retried payload is the first payload
\* without temperature and top_p, every other field preserved.
C5_RetryOmitsOnlySampling ==
    ( /\ Len(streamReqs) = 2
      /\ replies[1].status = 400
      /\ firstDetail \in {B_TEMPERATURE, B_TOP_P} )
    => streamReqs[2].payload = without(streamReqs[1].payload, {"temperature", "top_p"})

\* the bodies that match a tools, sampling or reasoning.effort pattern
RetryBodies == {B_TEMPERATURE, B_TOP_P, B_REASONING, B_UNKNOWN_TOOL, B_TOOLS_VALUE}

\* C6: at most two streaming requests are issued; the second only after a
\* first answer of status 400 whose body matches a tools, sampling or
\* reasoning.effort pattern; any other non-OK first answer, and any non-OK
\* second answer, is followed by no further streaming request and is
\* surfaced as an error chunk.
C6_RetryAtMostOnce ==
    /\ Len(streamReqs) <= 2
    /\ Len(streamReqs) = 2 => replies[1].status = 400 /\ firstDetail \in RetryBodies
    /\ ( firstDetail # Absent /\ ~(replies[1].status = 400 /\ firstDetail \in RetryBodies) )
       => /\ Len(streamReqs) = 1
          /\ has(out, ErrorChunk(T_UPSTREAM_STATUS(replies[1].status, firstDetail)))
    /\ ( Len(replies) = 2 /\ ~ok(replies[2]) /\ pc = "done" )
       => /\ Len(streamReqs) = 2
          /\ \E d \in {replies[2].body, ""} : has(out, ErrorChunk(T_UPSTREAM_ERROR(d)))

\* the retried request itself was answered with a non-OK status and the
\* task is over
C6_Witness ==
    /\ Len(streamReqs) = 2
    /\ Len(replies) = 2
    /\ replies[2].status = 400
    /\ pc = "done"
    /\ has(out, ErrorChunk(T_UPSTREAM_ERROR(replies[2].body)))

\* C7: when every due timer callback runs and the clock advances,
\* controller.close() is eventually executed, whether the upstream fetches
\* and reads settle or stall.
C7_EventuallyClosed == <>ctrlClosed

\* the stream was closed although the fallback fetch threw
C7_Witness == ctrlClosed /\ wd = "threw" /\ fallback = NoResponse

\* C8: controller.close() is executed at most once, the terminal marker is
\* emitted at most once, and no enqueue or close is attempted on a closed
\* controller.
C8_CloseIdempotent ==
    /\ closeCalls <= 1
    /\ Cardinality(stopsIn(out)) <= 1
    /\ Cardinality(donesIn(out)) <= 1
    /\ threw = 0

\* C9: once the stream is closed, the heartbeat interval, the overall
\* timeout and the first-packet watchdog are cancelled, and none of their
\* callbacks runs after the close.
C9_TimersCancelledAtClose ==
    ctrlClosed =>
        /\ ~hbOn
        /\ toTimer # "armed"
        /\ wd # "armed"
        /\ ranAfterClose = {}

\* C10: after the client cancelled while an upstream read was in flight, no
\* further upstream read is made and no further upstream request is issued.
C10_CancelPropagates ==
    ( clientGone /\ cancelSnap.pc = "reading" )
    => /\ readsIssued = cancelSnap.reads
       /\ Len(reqs) = cancelSnap.reqs

\* the chunks of the timeout branch of the catch block
timeoutTail == << ErrorChunk(T_TIMEOUT), StopChunk, DoneFrame >>

\* the overall timer fires while the stream is open
timeoutFires == toTimer = "armed" /\ toTimer' = "fired" /\ ~ctrlClosed

\* the turn of the timer aborts the upstream request with the timeout
\* reason, gives the stream its first and only timeout message, then the
\* stop chunk and [DONE], and closes it
timeoutEnds ==
    /\ aborted' = E_TIMEOUT
    /\ ~has(out, ErrorChunk(T_TIMEOUT))
    /\ stopsIn(out) = {}
    /\ out' = out \o timeoutTail
    /\ ctrlClosed'
    /\ pc' = "done"

\* C11, as stated: when the overall timer fires while the stream is open,
\* during an upstream fetch or while an upstream body is read, the upstream
\* request is aborted with the timeout reason and, in that turn, the stream
\* gets its first and only timeout message, then the stop chunk and [DONE],
\* and is closed.
C11_TimeoutEndsStream == [][ timeoutFires => timeoutEnds ]_vars

\* C11, amended: the same, when the task awaits an upstream fetch or a read
\* of the streamed body; when it awaits the text of an error response, the
\* request is aborted with the timeout reason and the stream gets the error
\* chunk of that response with an empty detail and no timeout message, then
\* the stop chunk and [DONE], and is closed.
C11_TimeoutOutsideErrorBody ==
    [][ timeoutFires
        => /\ pc \in {"fetch1", "fetch2", "reading"} => timeoutEnds
           /\ pc \in {"errbody1", "errbody2"}
              => /\ aborted' = E_TIMEOUT
                 /\ stopsIn(out) = {}
                 /\ out' = out \o << ErrorChunk(IF pc = "errbody1"
                                                THEN T_UPSTREAM_STATUS(upstream.status, "")
                                                ELSE T_UPSTREAM_ERROR("")),
                                     StopChunk, DoneFrame >>
                 /\ ~has(out', ErrorChunk(T_TIMEOUT))
                 /\ ctrlClosed'
                 /\ pc' = "done"
           /\ pc \in {"fetch1", "fetch2", "reading", "errbody1", "errbody2"} ]_vars

\* the timer fired while the task was reading a body that had delivered text
C11_Witness ==
    /\ toTimer = "fired"
    /\ aborted = E_TIMEOUT
    /\ upDeltas # << >>
    /\ ctrlClosed
    /\ Len(out) > 3
    /\ SubSeq(out, Len(out) - 2, Len(out)) = timeoutTail

heartbeatsIn(q) == { i \in 1..Len(q) : q[i] = TextChunk(T_HEARTBEAT) }

\* C12: a heartbeat notice is enqueued only by a due heartbeat tick, and only
\* when more than HEARTBEAT_MS have passed since the last content chunk (a
\* forwarded text delta, a notice or the previous heartbeat notice) was
\* enqueued.
C12_HeartbeatOnlyAfterQuiet ==
    [][ heartbeatsIn(out') # heartbeatsIn(out)
        => /\ hbOn /\ now >= hbDue /\ hbDue' = now + HEARTBEAT_MS
           /\ out' = Append(out, TextChunk(T_HEARTBEAT))
           /\ now - lastContentAt > HEARTBEAT_MS
           /\ lastTextTs' = now ]_vars

\* a text delta was forwarded between two heartbeat notices
C12_Witness ==
    \E i, j \in heartbeatsIn(out) :
        /\ i + 1 < j
        /\ \E k \in (i + 1)..(j - 1) : out[k].id = "cmpl-chunk" /\ k \notin heartbeatsIn(out)

\* the texts that are notices of the worker, not text of the upstream
NoticeTexts ==
    { T_HEARTBEAT, T_SEARCHING, T_SYNTHESIZING, T_PROGRESS }
      \cup { T_EVENT(t) : t \in { TY_TOOL_STARTED, TY_TOOL_COMPLETED, TY_TOOL_RESULTS,
                                   TY_IN_PROGRESS, TY_CREATED } }

\* a text delta of the upstream has been forwarded
genuineTextIn(q) ==
    \E i \in 1..Len(q) : q[i].id = "cmpl-chunk" /\ q[i].content \notin NoticeTexts

\* C13: gotFirstText is true only when a text delta of the upstream has been
\* forwarded, and the watchdog callback returns without falling back only
\* in that case: a stream that has shown only notices still falls back.
C13_FirstTextOnlyOnGenuineText ==
    /\ gotFirstText => genuineTextIn(out)
    /\ wd = "returned" => genuineTextIn(out)

searchingIn(q) == { i \in 1..Len(q) : q[i] = TextChunk(T_SEARCHING) }

\* C14: at most one "searching" notice is emitted per request.
C14_OneSearchingNotice == Cardinality(searchingIn(out)) <= 1

\* the notice the specification expects for a results event with n entries
T_RESULTS(n) == "found " \o ToString(n) \o " results"

errorsIn(q) == { i \in 1..Len(q) : q[i].id = "cmpl-error" }

\* C15: when the upstream has sent tool-call started, results with 3 entries,
\* tool-call completed, the delta "Paris" and [DONE], and the task ended
\* without error chunk or heartbeat notice, the client has received the
\* role chunk, one searching notice, one 3-results notice, one synthesizing
\* notice, the "Paris" delta, the stop chunk and [DONE], in that order.
C15_ParisTranscript ==
    ( /\ script.lines = "paris" /\ linesLeft = 0 /\ pc = "done"
      /\ errorsIn(out) = {} /\ heartbeatsIn(out) = {} )
    => out = << RoleChunk, TextChunk(T_SEARCHING), TextChunk(T_RESULTS(3)),
                TextChunk(T_SYNTHESIZING), TextChunk("Paris"), StopChunk, DoneFrame >>

\* json({ error: ... }, 400), the answer the specification expects for a
\* POST body that is not JSON
BadRequest == HttpResponse(400, "application/json")

\* C17: a POST whose body is not valid JSON is answered with HTTP 400 and a
\* JSON error payload; no stream is opened and no upstream request is issued.
C17_InvalidJsonRejected ==
    ( cfg.method = "POST" /\ cfg.body = "invalid" )
    => /\ http = BadRequest
       /\ out = << >>
       /\ reqs = << >>

\* the task ended by surfacing a non-retryable error status of the first or
\* of the retried streaming request
errorSurfaced ==
    /\ pc = "done"
    /\ \/ /\ Len(replies) = 1 /\ ~ok(replies[1])
          /\ firstDetail # Absent /\ ~shouldRetry(replies[1].status, firstDetail)
       \/ Len(replies) = 2 /\ ~ok(replies[2])

\* the error chunks that carry the detail of the last answer; the detail is
\* empty when the body of the answer could not be read
surfacedErrors ==
    IF Len(replies) = 1
    THEN { ErrorChunk(T_UPSTREAM_STATUS(replies[1].status, firstDetail)) }
    ELSE { ErrorChunk(T_UPSTREAM_ERROR(d)) : d \in {replies[2].body, ""} }

\* C16 as stated: after a non-retryable error status the response is 200
\* text/event-stream and the stream is exactly the role chunk, one error
\* chunk with the upstream detail, the stop chunk and [DONE], then closed,
\* with no further upstream request.
C16_ErrorStreamExact ==
    errorSurfaced
    => /\ http = StreamResponse
       /\ ctrlClosed
       /\ \E e \in surfacedErrors : out = << RoleChunk, e, StopChunk, DoneFrame >>
       /\ Len(reqs) = Len(replies)

\* C16 amended: as stated, except that heartbeat notices, sent while the
\* upstream had not yet answered, may stand between the role chunk and the
\* error chunk.
C16_ErrorStreamUpToHeartbeats ==
    errorSurfaced
    => /\ http = StreamResponse
       /\ ctrlClosed
       /\ \E e \in surfacedErrors :
             /\ SelectSeq(out, LAMBDA c : c # TextChunk(T_HEARTBEAT))
                  = << RoleChunk, e, StopChunk, DoneFrame >>
             /\ SubSeq(out, Len(out) - 2, Len(out)) = << e, StopChunk, DoneFrame >>
             /\ out[1] = RoleChunk
       /\ Len(reqs) = Len(replies)
       /\ Len(streamReqs) = Len(replies)

\* the retried request was answered with an error status after a heartbeat
\* notice had been sent
C16_Witness ==
    /\ errorSurfaced
    /\ Len(replies) = 2
    /\ heartbeatsIn(out) # {}
    /\ has(out, ErrorChunk(T_UPSTREAM_ERROR(replies[2].body)))

\* the record readUpstream starts from: the role chunk is enqueued, nothing
\* is decoded yet
FreshLocal ==
    [ out |-> << RoleChunk >>, got |-> FALSE, last |-> 0, lastEvent |-> "", dump |-> 0,
      closed |-> FALSE, threw |-> 0, exc |-> FALSE, ctl |-> FALSE ]

\* what readUpstream enqueues when the bytes arrive in one delivery
oneDelivery(bytes) == processLines(linesIn(bytes), FreshLocal, TRUE, cfg)

\* C18: however the upstream bytes were cut into deliveries, while the task
\* is reading and no heartbeat notice was sent, the stream holds exactly the
\* chunks that readUpstream produces for the same bytes arriving in one
\* delivery, and the decoder holds back the same unfinished line; when the
\* task has ended without error chunk, the stream is what that one delivery
\* and the end of the task produce.
C18_SplitIndependent ==
    /\ ( script.cut /\ pc = "reading" /\ heartbeatsIn(out) = {} )
       => /\ out = oneDelivery(upBytes).out
          /\ buffer = restIn(upBytes)
          /\ ~oneDelivery(upBytes).closed
    /\ ( script.cut /\ pc = "done" /\ heartbeatsIn(out) = {} /\ errorsIn(out) = {} )
       => /\ out = finalStop(oneDelivery(upBytes), TRUE).out
          /\ oneDelivery(upBytes).closed = ~eof

\* a delta record was cut in the middle by a delivery boundary and has been
\* forwarded as one text chunk after a later delivery brought its rest
C18_Witness ==
    /\ script.cut /\ pc = "reading" /\ heartbeatsIn(out) = {}
    /\ \E i \in 1..Len(upBytes) :
          /\ upBytes[i].part = "head"
          /\ isDeltaRecord(upBytes[i].l)
          /\ i + 2 = Len(upBytes)
          /\ out[Len(out)] = TextChunk(upBytes[i].l.delta)
          /\ Len(out) = 3

\* C19: when the upstream body has ended while the decoder held a complete
\* text-delta line that lacked only its newline, and nothing but the end of
\* the body ended the stream, the text of that line has been forwarded.
C19_TailFlushedAtEOF ==
    ( /\ eof /\ pc = "done" /\ errorsIn(out) = {}
      /\ Len(buffer) = 1 /\ buffer[1].part = "whole" /\ isDeltaRecord(buffer[1].l) )
    => /\ out # << >>
       /\ \E i \in 1..Len(out) :
             /\ out[i] = TextChunk(buffer[1].l.delta)
             /\ \A j \in (i + 1)..Len(out) : out[j].id # "cmpl-chunk"

\* the payload has sampling fields, and it has the reasoning field
hasSampling(p) == {"temperature", "top_p"} \cap DOMAIN p # {}
hasReasoning(p) == "reasoning" \in DOMAIN p

\* C20: no payload sent upstream (first request, retry, fallback) has both
\* sampling fields and reasoning; sampling fields appear only for a model
\* whose name does not match /thinking/i and reasoning only for one whose
\* name does.
C20_SamplingXorReasoning ==
    \A i \in 1..Len(reqs) :
        /\ ~(hasSampling(reqs[i].payload) /\ hasReasoning(reqs[i].payload))
        /\ hasSampling(reqs[i].payload) => ~isThinking(reqs[i].payload["model"])
        /\ hasReasoning(reqs[i].payload) => isThinking(reqs[i].payload["model"])

\* a first request, a retry and a fallback request have been sent, for a
\* model without reasoning whose first payload has the sampling fields
C20_Witness ==
    /\ Len(streamReqs) = 2 /\ Len(fallbackReqs) = 1
    /\ ~isThinking(cfg.model)
    /\ {"temperature", "top_p"} \subseteq DOMAIN reqs[1].payload
    /\ ~hasSampling(reqs[2].payload) /\ ~hasSampling(reqs[3].payload)

\* the messages with role system in the input of payload p
systemsIn(p) == { i \in 1..Len(p["input"]) : p["input"][i].role = "system" }

\* C21: the message list of every upstream request holds exactly one message
\* with role system, whatever the client sent, also when the caller's
\* messages hold several.
C21_ExactlyOneSystem ==
    \A i \in 1..Len(reqs) : Cardinality(systemsIn(reqs[i].payload)) = 1

\* the outgoing stream is open: the response that carries it is returned,
\* the role chunk is its first chunk, and it is not closed
streamOpen ==
    /\ http = StreamResponse
    /\ out # << >> /\ out[1] = RoleChunk
    /\ ~ctrlClosed

\* C22: the role chunk is the first chunk of the stream on every path, and
\* every upstream request (first, retry, fallback) is issued while the
\* outgoing stream is open.
C22_RequestsWhileStreamOpen ==
    /\ reqs # << >> => streamOpen
    /\ [](http = StreamResponse => out # << >> /\ out[1] = RoleChunk)
    /\ [][Len(reqs') > Len(reqs) => streamOpen]_vars

(***************************************************************************)
(* /api/debug of the hardened worker (index.ts:62-66, 106-115), asked of   *)
(* two deployments.                                                        *)
(***************************************************************************)
\* the variables of the /api/chat stream
chatVars ==
    << now, cfg, http, script, pc, replies, firstDetail, fallback, reqs, out, ctrlClosed,
       closeCalls, clientGone, threw, aborted, toTimer, hbOn, hbDue, ranAfterClose, wd,
       wdDue, lastTextTs, gotFirstText, lastEvent, dumpCount, linesLeft, buffer,
       eof, upBytes, readsIssued, cancelSnap, lastContentAt, upDeltas, onlyDeltas >>

DEFAULT_MODEL == "gpt-4o"

\* values of the variables of a deployment; "" is a variable that is not set
KeyValues == {"", "sk-one", "sk-two"}
ModelValues == {"", "gpt-5", " gpt-5-thinking "}
ApiBaseValues == {"", "https://proxy.example/v1"}
ToolsValues == {"", "on", "ON", "off"}

Envs ==
    [ OPENAI_API_KEY : KeyValues, OPENAI_MODEL : ModelValues,
      OPENAI_API_BASE : ApiBaseValues, OPENAI_NATIVE_TOOLS : ToolsValues ]

\* String.prototype.trim, on ModelValues and DEFAULT_MODEL
trim(str) == IF str = " gpt-5-thinking " THEN "gpt-5-thinking" ELSE str

\* String.prototype.toLowerCase, on ToolsValues
toLowerCase(str) == IF str = "ON" THEN "on" ELSE str

\* a || b for strings
orElse(a, b) == IF a # "" THEN a ELSE b

\* index.ts:63
modelOf(env) == trim(orElse(env.OPENAI_MODEL, DEFAULT_MODEL))

\* index.ts:66
ENABLE_TOOLS(env) == toLowerCase(env.OPENAI_NATIVE_TOOLS) = "on"

\* the body with the key itself in place of "set"
debugBody_showsKey(env) ==
    [ OPENAI_API_KEY |-> orElse(env.OPENAI_API_KEY, "not set"),
      OPENAI_MODEL |-> orElse(env.OPENAI_MODEL, "not set"),
      OPENAI_API_BASE |-> orElse(env.OPENAI_API_BASE, "not set"),
      OPENAI_NATIVE_TOOLS |-> IF ENABLE_TOOLS(env) THEN "on" ELSE "off",
      effective_model |-> modelOf(env) ]

\* the object of index.ts:108-114
debugBody(env) ==
    [ OPENAI_API_KEY |-> IF env.OPENAI_API_KEY # "" THEN "set" ELSE "not set",
      OPENAI_MODEL |-> orElse(env.OPENAI_MODEL, "not set"),
      OPENAI_API_BASE |-> orElse(env.OPENAI_API_BASE, "not set"),
      OPENAI_NATIVE_TOOLS |-> IF ENABLE_TOOLS(env) THEN "on" ELSE "off",
      effective_model |-> modelOf(env) ]

\* json(obj): status 200, the object as body
json(obj) == [ status |-> 200, type |-> "application/json", body |-> obj ]

\* a deployment that was not asked yet
NoAnswer == [ status |-> 0, type |-> "", body |-> << >> ]

\* two deployments, no request made yet
InitDebug ==
    /\ NoStream(CoreConfig, [ lines |-> "core", answers |-> "core", cut |-> FALSE ],
                HttpResponse(0, ""))
    /\ \E e1 \in Envs, e2 \in Envs :
          debug = [ envs |-> << e1, e2 >>, bodies |-> << NoAnswer, NoAnswer >> ]
    /\ twin = TwinIdle
    /\ accum = AccumIdle
    /\ client = ClientIdle

\* GET /api/debug on deployment i
DebugRequest(i) ==
    /\ debug.bodies[i].status = 0
    /\ debug' = [ debug EXCEPT !.bodies[i] = json(debugBody(debug.envs[i])) ]
    /\ UNCHANGED << chatVars, twin, accum, client >>

NextDebug == \E i \in 1..2 : DebugRequest(i)

SpecDebug == InitDebug /\ [][NextDebug]_vars

\* the two environments differ only in the value of the key, set in both
sameButKey(e1, e2) ==
    /\ e1.OPENAI_API_KEY # "" /\ e2.OPENAI_API_KEY # ""
    /\ [ e1 EXCEPT !.OPENAI_API_KEY = "" ] = [ e2 EXCEPT !.OPENAI_API_KEY = "" ]

\* C23: two deployments whose environments differ only in the non-empty
\* value of OPENAI_API_KEY answer /api/debug with identical responses.
C23_DebugHidesKeyValue ==
    ( /\ Len(debug.envs) = 2
      /\ debug.bodies[1].status # 0 /\ debug.bodies[2].status # 0
      /\ sameButKey(debug.envs[1], debug.envs[2]) )
    => debug.bodies[1] = debug.bodies[2]

\* both deployments answered, with different keys set and all else equal
C23_Witness ==
    /\ Len(debug.envs) = 2
    /\ debug.bodies[1].status # 0 /\ debug.bodies[2].status # 0
    /\ sameButKey(debug.envs[1], debug.envs[2])
    /\ debug.envs[1].OPENAI_API_KEY # debug.envs[2].OPENAI_API_KEY
    /\ debug.bodies[1].body.OPENAI_API_KEY = "set"

(***************************************************************************)
(* Two requests served by the same worker with the same configuration,     *)
(* whose upstream stubs answer 200 and send the same body at the same      *)
(* times after the start of the request, and end it in the same way at     *)
(* the same time.  Each request has its own task state, timers and         *)
(* controller (index.ts:221-606) and its own event loop turns: which of    *)
(* two things that are ready at the same time runs first, how many         *)
(* deliveries that have arrived one reader.read() returns together, and    *)
(* whether a turn runs on the millisecond or TwinLate after it, is chosen  *)
(* for each request on its own.  The two share the clock; the second       *)
(* starts TwinLag after the first.  Both are followed for less than the    *)
(* 45 s of the request timeout (index.ts:236), which stays armed.          *)
(***************************************************************************)
\* lines of the body the two upstreams send
MaxTwinLines == 1
\* ms by which a turn may run after the time it became ready
TwinLate == 1

\* the step of the clock: heartbeat callbacks and watchdog fall on it
TwinGrain == FIRST_PACKET_MS - HEARTBEAT_MS
\* the times after the start of the request at which the stub sends and
\* ends the body: at once, and when the first heartbeat callback and the
\* watchdog are due
TwinTimes == { 0, HEARTBEAT_MS, FIRST_PACKET_MS }

\* the lines the two upstreams choose from
TwinLines ==
    { EventLine(TY_TOOL_STARTED), DoneLine, DeltaLine(TY_TEXT_DELTA, "a") }

\* the variables of the /api/chat stream, except the clock
chatButNow ==
    << cfg, http, script, pc, replies, firstDetail, fallback, reqs, out, ctrlClosed,
       closeCalls, clientGone, threw, aborted, toTimer, hbOn, hbDue, ranAfterClose, wd,
       wdDue, lastTextTs, gotFirstText, lastEvent, dumpCount, linesLeft, buffer,
       eof, upBytes, readsIssued, cancelSnap, lastContentAt, upDeltas, onlyDeltas >>

\* the configurations of the two requests: the debug switches
TwinConfigs ==
    { [ CoreConfig EXCEPT !.debugEvents = d, !.debugDump = d ] : d \in BOOLEAN }

\* the time between the starts of the two requests
TwinLag == TwinGrain

\* the clock stops here: both requests have met all that the stub sends and
\* the watchdog
TwinHorizon == FIRST_PACKET_MS + TwinLag

\* what the stub answers to the fallback request
TwinFallback == Response(200, TRUE, FB_OUTPUT)

\* the bodies of the stub: lines with the times they are sent at, and the
\* way and time the body ends
TwinFeeds ==
    { f \in [ lines : {<< >>} \cup Deliveries(TwinLines, MaxTwinLines),
              at : {<< >>} \cup Deliveries(TwinTimes, MaxTwinLines),
              how : {"eof", "error"}, endAt : TwinTimes ] :
        /\ Len(f.at) = Len(f.lines)
        /\ \A i \in 1..Len(f.at) :
              /\ f.at[i] <= f.endAt
              /\ i > 1 => f.at[i - 1] <= f.at[i] }

\* a request started at time start whose streaming call has just answered
\* 200: the heartbeat runs, the watchdog is armed, readUpstream awaits its
\* first read (index.ts:232-260, 413, 495-564)
TwinRun(start) ==
    [ s |-> [ out |-> << RoleChunk >>, got |-> FALSE, last |-> start, lastEvent |-> "",
              dump |-> 0, closed |-> FALSE, threw |-> 0, exc |-> FALSE, ctl |-> FALSE ],
      k |-> 0, pc |-> "reading", ctl |-> FALSE,
      hbOn |-> TRUE, hbDue |-> start + HEARTBEAT_MS,
      wd |-> "armed", wdDue |-> start + FIRST_PACKET_MS,
      start |-> start, sched |-> << >> ]

\* what can happen to a run: a read resolves with the next n deliveries,
\* with done or with a network error; a timer callback that is due runs (in
\* the order of the due times); the fallback fetch resolves; its text
\* arrives
TwinEvents == { "read", "eof", "error", "heartbeat", "watchdog", "fallback", "text" }

\* no armed timer of run is due before time d
twinNoneBefore(run, d) ==
    /\ run.hbOn => run.hbDue >= d
    /\ run.wd = "armed" => run.wdDue >= d

\* the next n deliveries have arrived
twinArrived(run, n) ==
    IF n >= 1 /\ run.k + n <= Len(twin.feed.lines)
    THEN run.start + twin.feed.at[run.k + n] <= now
    ELSE FALSE

twinCan(run, e, n) ==
    CASE e = "read" -> run.pc = "reading" /\ twinArrived(run, n)
      [] e = "eof" -> /\ run.pc = "reading" /\ run.k = Len(twin.feed.lines)
                      /\ twin.feed.how = "eof" /\ run.start + twin.feed.endAt <= now
      [] e = "error" -> /\ run.pc = "reading" /\ run.k = Len(twin.feed.lines)
                        /\ twin.feed.how = "error" /\ run.start + twin.feed.endAt <= now
      [] e = "heartbeat" ->
           run.hbOn /\ now >= run.hbDue /\ twinNoneBefore(run, run.hbDue)
      [] e = "watchdog" ->
           run.wd = "armed" /\ now >= run.wdDue /\ twinNoneBefore(run, run.wdDue)
      [] e = "fallback" -> run.wd = "fetching"
      [] e = "text" -> run.wd = "text"

\* the turn of the event loop that event e starts in a run
twinStep(run, e, n) ==
    LET w == ~run.ctl
        t == [ run.s EXCEPT !.closed = FALSE, !.exc = FALSE, !.ctl = FALSE ]
        \* the task ends with s2, through its catch block or its last lines
        ends(s2, clrWD) ==
            [ run EXCEPT !.s = s2, !.ctl = @ \/ s2.ctl, !.pc = endOf(s2), !.hbOn = FALSE,
                         !.wd = IF clrWD THEN clearTimer(@) ELSE @ ]
    IN  CASE e = "read" ->
               \* index.ts:295-399, then 565-573 or 574-605
               LET s1 == processLines([ i \in 1..n |-> twin.feed.lines[run.k + i] ],
                                      t, w, cfg)
               IN  IF s1.exc
                   THEN [ ends(catchBlock(s1, E_STATE, w), FALSE) EXCEPT !.k = @ + n ]
                   ELSE IF s1.closed
                   THEN [ ends(tryOrCatch(finalStop(s1, w), w), TRUE) EXCEPT !.k = @ + n ]
                   ELSE [ run EXCEPT !.s = s1, !.k = @ + n ]
          [] e = "eof" -> ends(tryOrCatch(finalStop(t, w), w), TRUE)
          [] e = "error" -> ends(catchBlock(t, E_NETWORK, w), FALSE)
          [] e = "heartbeat" ->
               \* index.ts:241-258
               LET q == enqueue(t, TextChunk(T_HEARTBEAT), w)
                   s1 == IF now - t.last > HEARTBEAT_MS
                         THEN (IF q.exc THEN q ELSE [ q EXCEPT !.last = now ])
                         ELSE t
               IN  [ run EXCEPT !.s = s1, !.hbDue = now + HEARTBEAT_MS ]
          [] e = "watchdog" ->
               \* index.ts:495-515; the abort rejects the pending read
               IF t.got THEN [ run EXCEPT !.wd = "returned" ]
               ELSE IF run.pc = "reading"
               THEN [ ends(catchBlock(t, E_ABORT, w), FALSE) EXCEPT !.wd = "fetching" ]
               ELSE [ run EXCEPT !.wd = "fetching" ]
          [] e = "fallback" -> [ run EXCEPT !.wd = "text" ]
          [] e = "text" ->
               \* index.ts:517-560
               LET s1 == fallbackDeliver(t, TwinFallback, TwinFallback.body, w)
               IN  [ run EXCEPT !.s = s1, !.ctl = @ \/ s1.ctl,
                                !.wd = IF s1.exc THEN "threw" ELSE "done",
                                !.hbOn = @ /\ s1.exc ]

InitTwin ==
    /\ \E c \in TwinConfigs :
          NoStream(c, [ lines |-> "all", answers |-> "core", cut |-> FALSE ],
                   HttpResponse(0, ""))
    /\ debug = DebugIdle
    /\ accum = AccumIdle
    /\ client = ClientIdle
    /\ \E feed \in TwinFeeds :
          twin = [ feed |-> feed, a |-> TwinRun(0), b |-> TwinRun(TwinLag) ]

\* event e happens to run r now; the run notes what happened and how long
\* after its start
TwinEvent(r, e, n) ==
    /\ twinCan(twin[r], e, n)
    /\ twin' = [ twin EXCEPT
                   ![r] = [ twinStep(twin[r], e, n) EXCEPT
                              !.sched = Append(@, [ e |-> e, n |-> n,
                                                    at |-> now - twin[r].start ]) ] ]
    /\ UNCHANGED << chatVars, debug, accum, client >>

TwinRead == \E r \in {"a", "b"} : \E n \in 1..MaxTwinLines : TwinEvent(r, "read", n)
TwinEOF == \E r \in {"a", "b"} : TwinEvent(r, "eof", 0)
TwinReadError == \E r \in {"a", "b"} : TwinEvent(r, "error", 0)
TwinHeartbeat == \E r \in {"a", "b"} : TwinEvent(r, "heartbeat", 0)
TwinWatchdog == \E r \in {"a", "b"} : TwinEvent(r, "watchdog", 0)
TwinFallbackResolve == \E r \in {"a", "b"} : TwinEvent(r, "fallback", 0)
TwinFallbackText == \E r \in {"a", "b"} : TwinEvent(r, "text", 0)

\* a turn of run is ready
twinReady(run) ==
    \/ twinCan(run, "read", 1) \/ twinCan(run, "eof", 0) \/ twinCan(run, "error", 0)
    \/ twinCan(run, "heartbeat", 0) \/ twinCan(run, "watchdog", 0)
    \/ twinCan(run, "fallback", 0) \/ twinCan(run, "text", 0)

\* something of run is still pending
twinActive(run) ==
    run.pc = "reading" \/ run.hbOn \/ run.wd \in {"armed", "fetching", "text"}

\* the turns that are ready run late
TwinLateStep ==
    /\ now % TwinGrain = 0
    /\ twinReady(twin.a) \/ twinReady(twin.b)
    /\ now' = now + TwinLate
    /\ UNCHANGED << chatButNow, debug, twin, accum, client >>

\* time passes to the next time of the stub, when no turn is ready
TwinTick ==
    /\ now < TwinHorizon
    /\ ~twinReady(twin.a) /\ ~twinReady(twin.b)
    /\ twinActive(twin.a) \/ twinActive(twin.b)
    /\ now' = now - (now % TwinGrain) + TwinGrain
    /\ UNCHANGED << chatButNow, debug, twin, accum, client >>

NextTwin ==
    \/ TwinRead \/ TwinEOF \/ TwinReadError
    \/ TwinHeartbeat \/ TwinWatchdog \/ TwinFallbackResolve \/ TwinFallbackText
    \/ TwinLateStep
    \/ TwinTick

SpecTwin == InitTwin /\ [][NextTwin]_vars

\* the two runs are set up
twinRuns == "a" \in DOMAIN twin

\* nothing more happens in a run
twinEnded(run) == ~twinActive(run)

\* the chunks of q other than heartbeat notices
noNotices(q) == SelectSeq(q, LAMBDA c : c # TextChunk(T_HEARTBEAT))

\* nothing of the stub arrives at the time the watchdog is due
twinApart ==
    /\ twin.feed.endAt # FIRST_PACKET_MS
    /\ \A i \in 1..Len(twin.feed.at) : twin.feed.at[i] # FIRST_PACKET_MS

MaxAccEvents == 3
\* reads the consumer of the stream has waiting at once
MaxAccReads == 1

\* the characters \s matches
Whitespace == {" ", "\n"}

\* str.trim().length === 0
isBlank(str) == \A i \in 1..Len(str) : str[i] \in Whitespace

\* str.replace(/^\s+/, "")
RECURSIVE trimStart(_)
trimStart(str) ==
    IF str # << >> /\ Head(str) \in Whitespace THEN trimStart(Tail(str)) ELSE str

\* an upstream event `data: <payload>`: payload [DONE], text that is not
\* JSON, or JSON whose choices[0].delta.content is a string or missing
\* (isString: typeof content === "string")
AccEvent(kind, isString, content) ==
    [ kind |-> kind, isString |-> isString, content |-> content ]
AccDone == AccEvent("done", FALSE, << >>)
AccNotJson == AccEvent("text", FALSE, << >>)
AccRole == AccEvent("json", FALSE, << >>)
AccDelta(str) == AccEvent("json", TRUE, str)

AccEvents ==
    { AccDone, AccNotJson, AccRole, AccDelta(<< >>), AccDelta(<< "a" >>),
      AccDelta(<< " " >>), AccDelta(<< "\n", "b" >>) }

\* the frames handleChat enqueues
ResponseFrame(acc) == [ response |-> acc, done |-> FALSE ]
EndFrame == [ response |-> << >>, done |-> TRUE ]

\* `chunk`: part_001:200-203 and 264-267
chunkOf(e) == IF e.kind = "json" /\ e.isString THEN e.content ELSE << >>

\* the last frames without controller.close() and return
accFinish_staysOpen(st) ==
    LET acc == IF ~st.sentAny /\ Len(st.acc) > 0 THEN trimStart(st.acc) ELSE st.acc
        sent == st.sentAny \/ Len(st.acc) > 0
        emitted == IF Len(acc) > 0 THEN << ResponseFrame(acc) >> ELSE << >>
    IN  [ st EXCEPT !.acc = acc, !.sentAny = sent,
                    !.frames = @ \o emitted \o << EndFrame >> ]

\* part_001:208-218 and 243-254: the last frames and controller.close()
accFinish(st) ==
    LET acc == IF ~st.sentAny /\ Len(st.acc) > 0 THEN trimStart(st.acc) ELSE st.acc
        sent == st.sentAny \/ Len(st.acc) > 0
        emitted == IF Len(acc) > 0 THEN << ResponseFrame(acc) >> ELSE << >>
    IN  [ st EXCEPT !.acc = acc, !.sentAny = sent,
                    !.frames = @ \o emitted \o << EndFrame >>, !.pc = "closed" ]

\* a handler that sends each content string as it came instead of acc
accumulate_sendsChunk(st, e) ==
    IF e.kind = "done" THEN accFinish(st)
    ELSE IF e.kind # "json" THEN st
    ELSE IF isBlank(chunkOf(e)) THEN st
    ELSE LET acc0 == st.acc \o chunkOf(e)
             acc == IF ~st.sentAny /\ Len(acc0) > 0 THEN trimStart(acc0) ELSE acc0
         IN  [ st EXCEPT !.acc = acc, !.sentAny = TRUE,
                         !.frames = Append(@, ResponseFrame(chunkOf(e))) ]

\* one `data:` line of a complete block: part_001:237-283
accumulate(st, e) ==
    IF e.kind = "done" THEN accFinish(st)
    ELSE IF e.kind # "json" THEN st
    ELSE IF isBlank(chunkOf(e)) THEN st
    ELSE LET acc0 == st.acc \o chunkOf(e)
             acc == IF ~st.sentAny /\ Len(acc0) > 0 THEN trimStart(acc0) ELSE acc0
         IN  [ st EXCEPT !.acc = acc, !.sentAny = TRUE,
                         !.frames = Append(@, ResponseFrame(acc)) ]

\* the while loop over the complete blocks of the buffer: it ends at the
\* `return` after [DONE]
RECURSIVE accBlocks(_, _)
accBlocks(st, blocks) ==
    IF blocks = << >> \/ st.pc = "closed" THEN st
    ELSE accBlocks(accumulate(st, Head(blocks)), Tail(blocks))

\* the flush of the tail at EOF: part_001:192-207
accTail(st) ==
    IF st.buffer = << >> THEN st
    ELSE LET e == st.buffer[1]
         IN  IF e.kind = "json" /\ ~isBlank(chunkOf(e))
             THEN [ st EXCEPT !.acc = @ \o chunkOf(e) ]
             ELSE st

\* the stream is returned: nothing read yet (part_001:184-188)
InitAccum ==
    /\ NoStream(CoreConfig, [ lines |-> "core", answers |-> "core", cut |-> FALSE ],
                StreamResponse)
    /\ debug = DebugIdle /\ twin = TwinIdle /\ client = ClientIdle
    /\ accum = [ pc |-> "reading", buffer |-> << >>, acc |-> << >>, sentAny |-> FALSE,
                 frames |-> << >>, sent |-> << >>,
                 pulling |-> TRUE, pullAgain |-> FALSE, reads |-> 0, queued |-> 0,
                 cancelled |-> FALSE ]

\* the stream wants pull to be called
shouldPull(st) == st.pc = "reading" /\ (st.reads > 0 \/ st.queued < 1)

\* the stream calls pull if needed, or notes that it is wanted
callPullIfNeeded(st) ==
    IF ~shouldPull(st) THEN st
    ELSE IF st.pulling THEN [ st EXCEPT !.pullAgain = TRUE ]
    ELSE [ st EXCEPT !.pulling = TRUE ]

\* controller.enqueue of n frames while pull runs: a frame goes to a waiting
\* read or into the queue
RECURSIVE accEnqueue(_, _)
accEnqueue(st, n) ==
    IF n = 0 THEN st
    ELSE accEnqueue(IF st.reads > 0
                    THEN [ st EXCEPT !.reads = @ - 1, !.pullAgain = TRUE ]
                    ELSE [ st EXCEPT !.queued = @ + 1 ], n - 1)

\* read() of the consumer: it takes a frame from the queue or waits; on a
\* closed stream whose queue is empty it resolves with done at once
accRead(st) ==
    callPullIfNeeded(IF st.queued > 0 THEN [ st EXCEPT !.queued = @ - 1 ]
                     ELSE IF st.pc = "reading" THEN [ st EXCEPT !.reads = @ + 1 ]
                     ELSE st)

RECURSIVE accReads(_, _)
accReads(st, k) == IF k = 0 THEN st ELSE accReads(accRead(st), k - 1)

\* the promise of pull is fulfilled: pull is called again if it was wanted
\* and still is
accSettle(st) ==
    [ st EXCEPT !.pulling = st.pullAgain /\ shouldPull(st), !.pullAgain = FALSE ]

\* the reads that got one of the frames st1 added to st0
accServed(st0, st1) ==
    LET n == Len(st1.frames) - Len(st0.frames)
    IN  IF n < st0.reads THEN n ELSE st0.reads

\* pull ran from st0 to st1: the new frames are enqueued, and after close()
\* the waiting reads end
accAfter(st0, st1) ==
    LET st2 == accEnqueue(st1, Len(st1.frames) - Len(st0.frames))
    IN  IF st1.pc = "closed" THEN [ st2 EXCEPT !.reads = 0 ] ELSE st2

\* the states a turn in which pull ran from st0 to st1 may end in.  A
\* consumer whose read got a frame may call read() again in the same turn,
\* and again when that read found a frame in the queue: n reads in all,
\* through the queue and up to the reads that wait, of which j are made
\* before pull's promise is fulfilled and the others after it.
accTurns(st0, st1) ==
    LET st3 == accAfter(st0, st1)
        served == accServed(st0, st1)
        most == IF served > 0 THEN st3.queued + served ELSE 0
    IN  { accReads(accSettle(accReads(st3, jn[1])), jn[2] - jn[1]) :
            jn \in { x \in (0..most) \X (0..most) : x[1] <= x[2] } }

\* the consumer calls read()
AccAsk ==
    /\ accum.pc \in {"reading", "closed"}
    /\ accum.queued > 0 \/ (accum.pc = "reading" /\ accum.reads < MaxAccReads)
    /\ accum' = accRead(accum)
    /\ UNCHANGED << chatVars, debug, twin, client >>

\* pull: reader.read() resolved with the rest of the event held in the
\* buffer, if any, and event e, whose closing blank line may still be missing
AccPull ==
    /\ accum.pc = "reading"
    /\ accum.pulling
    /\ Len(accum.sent) < MaxAccEvents
    /\ \/ AccDone \notin { accum.sent[i] : i \in 1..Len(accum.sent) }
       \/ accum.buffer = << AccDone >>
    /\ \E e \in AccEvents, cut \in BOOLEAN :
          LET st == [ accum EXCEPT !.sent = Append(@, e),
                                   !.buffer = IF cut THEN << e >> ELSE << >> ]
              blocks == accum.buffer \o (IF cut THEN << >> ELSE << e >>)
              st1 == accBlocks(st, blocks)
          IN  accum' \in accTurns(accum, st1)
    /\ UNCHANGED << chatVars, debug, twin, client >>

\* pull: reader.read() resolved with done
AccEOF ==
    /\ accum.pc = "reading"
    /\ accum.pulling
    /\ accum' \in accTurns(accum, accFinish(accTail(accum)))
    /\ UNCHANGED << chatVars, debug, twin, client >>

\* the last statements of the EOF branch on a stream the client cancelled:
\* acc and sentAny are updated, the first controller.enqueue throws, and
\* neither a frame nor close() follows (part_001:208-217)
accThrow(st) ==
    LET acc == IF ~st.sentAny /\ Len(st.acc) > 0 THEN trimStart(st.acc) ELSE st.acc
        sent == st.sentAny \/ Len(st.acc) > 0
    IN  [ st EXCEPT !.acc = acc, !.sentAny = sent, !.pc = "cancelled" ]

\* the consumer cancels a stream that is not yet closed for it: its queue and
\* waiting reads are dropped and cancel() calls reader.cancel()
\* (part_001:286-290).  On a stream that is being read, a pending
\* reader.read() resolves with done and pull runs its EOF branch on the
\* cancelled stream; on a stream the handler has closed, the frames still
\* in the queue are lost to the consumer.
AccCancel ==
    /\ accum.pc = "reading" \/ (accum.pc = "closed" /\ accum.queued > 0)
    /\ accum' = [ (IF accum.pc = "closed" THEN accum
                   ELSE IF accum.pulling THEN accThrow(accTail(accum))
                   ELSE [ accum EXCEPT !.pc = "cancelled" ])
                  EXCEPT !.pulling = FALSE, !.pullAgain = FALSE,
                         !.reads = 0, !.queued = 0, !.cancelled = TRUE ]
    /\ UNCHANGED << chatVars, debug, twin, client >>

\* pull: reader.read() rejected (the upstream connection dropped); the
\* promise of pull rejects and the stream is errored: its queue is dropped
\* and the waiting reads are rejected (part_001:189-190)
AccReadError ==
    /\ accum.pc = "reading"
    /\ accum.pulling
    /\ accum' = [ accum EXCEPT !.pc = "errored", !.pulling = FALSE, !.pullAgain = FALSE,
                               !.reads = 0, !.queued = 0 ]
    /\ UNCHANGED << chatVars, debug, twin, client >>

NextAccum == AccPull \/ AccEOF \/ AccReadError \/ AccCancel \/ AccAsk

SpecAccum == InitAccum /\ [][NextAccum]_vars

\* the contents of the events, in order
RECURSIVE concatOf(_)
concatOf(events) ==
    IF events = << >> THEN << >> ELSE chunkOf(Head(events)) \o concatOf(Tail(events))

\* the events the upstream sent before its first [DONE]
RECURSIVE beforeDone(_)
beforeDone(events) ==
    IF events = << >> \/ Head(events).kind = "done" THEN << >>
    ELSE << Head(events) >> \o beforeDone(Tail(events))

\* the response frames among the frames
responsesIn(frames) == SelectSeq(frames, LAMBDA f : ~f.done)

\* C25: when the stream of the accumulator variant has ended, its last
\* {response, done:false} frame carries every content string the upstream
\* sent before its [DONE], in order, less the leading whitespace of the
\* whole text.
C25_LastFrameIsWholeText ==
    ( accum.pc = "closed" /\ trimStart(concatOf(beforeDone(accum.sent))) # << >> )
    => /\ responsesIn(accum.frames) # << >>
       /\ responsesIn(accum.frames)[Len(responsesIn(accum.frames))].response
            = trimStart(concatOf(beforeDone(accum.sent)))

(***************************************************************************)
(* The browser client (src/public/chat.js:54-254).  The page state is      *)
(* isProcessing, the two disabled flags, the typing indicator, chatHistory *)
(* and esRef; every sendMessage call has its own acc, closed, controller   *)
(* and message bubble.  The bubble holds nothing, an error text, or the    *)
(* rendering ("acc") of the text in shown.  One action is one turn of the  *)
(* event loop.                                                             *)
(***************************************************************************)
\* messages the user sends
MaxSends == 2
\* lines the server sends, in all its replies together
MaxClientLines == 3

\* what a line of the reply holds after `data:`: the sentinel, text that is
\* not JSON, JSON whose choices[0].delta.content is a string
SseLine(kind, isString, content) ==
    [ kind |-> kind, isString |-> isString, content |-> content ]
SseDone == SseLine("done", FALSE, << >>)
SseNotJson == SseLine("text", FALSE, << >>)
SseDelta(str) == SseLine("json", TRUE, str)

ClientLines == { SseDone, SseNotJson, SseDelta(<< "x" >>), SseDelta(<< " " >>) }

ERR_UPSTREAM == "Sorry, upstream error."
ERR_CONNECTION == "Sorry, there was a connection error."

\* a sendMessage call suspended at pc, with its locals
NewCall ==
    [ pc |-> "deps", closed |-> FALSE, aborted |-> FALSE, acc |-> << >>, body |-> "",
      shown |-> << >>, rafPending |-> FALSE, closes |-> 0, asked |-> 0, lines |-> 0 ]

\* the page as loaded: chat.js:55-63
InitClient ==
    /\ NoStream(CoreConfig, [ lines |-> "core", answers |-> "core", cut |-> FALSE ],
                HttpResponse(0, ""))
    /\ debug = DebugIdle /\ twin = TwinIdle /\ accum = AccumIdle
    /\ client = [ isProcessing |-> FALSE, inputDisabled |-> FALSE, sendDisabled |-> FALSE,
                  typing |-> FALSE, chatHistory |-> << "assistant" >>, esRef |-> 0,
                  calls |-> << >>, counting |-> FALSE ]

\* controller.abort() of call i
abortCall(c, i) == [ c EXCEPT !.calls[i].aborted = TRUE ]

\* the invocations of safeClose are counted in the runs that observe them
counted(c) == IF c.counting THEN 1 ELSE 0

\* safeClose without `if (closed) return;`
safeClose_noGuard(c, i, errorText) ==
    LET call == c.calls[i]
        answered == call.acc # << >> /\ ~isBlank(call.acc)
    IN  [ abortCall(c, i) EXCEPT
            !.calls[i].closed = TRUE,
            !.calls[i].asked = @ + counted(c),
            !.calls[i].closes = @ + 1,
            !.calls[i].body = IF answered THEN "acc"
                              ELSE IF errorText # "" THEN errorText ELSE @,
            !.calls[i].shown = IF answered THEN call.acc
                               ELSE IF errorText # "" THEN << >> ELSE @,
            !.typing = FALSE,
            !.chatHistory = IF answered THEN Append(@, "assistant") ELSE @,
            !.isProcessing = FALSE,
            !.inputDisabled = FALSE,
            !.sendDisabled = FALSE ]

\* safeClose(errorText) of call i: chat.js:225-253; asked counts the
\* invocations, closes the runs of the body
safeClose(c, i, errorText) ==
    IF c.calls[i].closed THEN [ c EXCEPT !.calls[i].asked = @ + counted(c) ]
    ELSE LET call == c.calls[i]
             answered == call.acc # << >> /\ ~isBlank(call.acc)
         IN  [ abortCall(c, i) EXCEPT
                 !.calls[i].closed = TRUE,
                 !.calls[i].asked = @ + counted(c),
                 !.calls[i].closes = @ + 1,
                 !.calls[i].body = IF answered THEN "acc"
                                   ELSE IF errorText # "" THEN errorText ELSE @,
                 !.calls[i].shown = IF answered THEN call.acc
                                    ELSE IF errorText # "" THEN << >> ELSE @,
                 !.typing = FALSE,
                 !.chatHistory = IF answered THEN Append(@, "assistant") ELSE @,
                 !.isProcessing = FALSE,
                 !.inputDisabled = FALSE,
                 !.sendDisabled = FALSE ]

\* the call returned
endCall(c, i) == [ c EXCEPT !.calls[i].pc = "ended" ]

\* the user sends a non-empty message: sendMessage up to
\* `await loadMarkdownDeps()`, chat.js:83-137
SendMessage ==
    /\ Len(client.calls) < MaxSends
    /\ ~client.isProcessing
    /\ LET c0 == IF client.esRef # 0 THEN abortCall(client, client.esRef) ELSE client
       IN  client' = [ c0 EXCEPT !.isProcessing = TRUE, !.inputDisabled = TRUE,
                                 !.sendDisabled = TRUE, !.typing = TRUE,
                                 !.chatHistory = Append(@, "user"),
                                 !.calls = Append(@, NewCall),
                                 !.esRef = Len(client.calls) + 1 ]
    /\ UNCHANGED << chatVars, debug, twin, accum >>

\* loadMarkdownDeps settled, either way; the call issues the fetch:
\* chat.js:136-168
DepsSettled(i) ==
    /\ client.calls[i].pc = "deps"
    /\ client' = [ client EXCEPT !.calls[i].pc = "fetch" ]
    /\ UNCHANGED << chatVars, debug, twin, accum >>

\* fetch resolved: chat.js:170-179
BrowserFetchResolve(i) ==
    /\ client.calls[i].pc = "fetch"
    /\ ~client.calls[i].aborted
    /\ \E good \in BOOLEAN :
          client' = IF good THEN [ client EXCEPT !.calls[i].pc = "read" ]
                    ELSE endCall(safeClose(client, i, ERR_UPSTREAM), i)
    /\ UNCHANGED << chatVars, debug, twin, accum >>

\* fetch rejected (network error, or the signal was aborted): chat.js:220-223
BrowserFetchReject(i) ==
    /\ client.calls[i].pc = "fetch"
    /\ client' = endCall(safeClose(client, i, ERR_CONNECTION), i)
    /\ UNCHANGED << chatVars, debug, twin, accum >>

\* the for loop over the lines of one delivery: chat.js:187-214; `break`
\* after [DONE] leaves it; scheduleRender() after a string delta requests an
\* animation frame unless one is pending
RECURSIVE browserLines(_, _, _)
browserLines(c, i, lines) ==
    IF lines = << >> THEN c
    ELSE LET l == Head(lines)
         IN  IF l.kind = "done" THEN safeClose(c, i, "")
             ELSE IF l.kind = "json" /\ l.isString
                  THEN browserLines([ c EXCEPT !.calls[i].acc = @ \o l.content,
                                               !.calls[i].rafPending = TRUE ], i,
                                    Tail(lines))
             ELSE browserLines(c, i, Tail(lines))

\* the lines the calls have read
RECURSIVE linesRead(_)
linesRead(calls) ==
    IF calls = << >> THEN 0 ELSE Head(calls).lines + linesRead(Tail(calls))

\* reader.read() resolved with whole lines; the loop awaits the next read:
\* chat.js:178-215
BrowserRead(i) ==
    /\ client.calls[i].pc = "read"
    /\ ~client.calls[i].aborted
    /\ \E lines \in Deliveries(ClientLines, MaxClientLines - linesRead(client.calls)) :
          client' = [ browserLines(client, i, lines) EXCEPT !.calls[i].lines = @ + Len(lines) ]
    /\ UNCHANGED << chatVars, debug, twin, accum >>

\* the safeClose after the loop is left out
browserReadDone_noClose(c, i) == endCall(c, i)

\* reader.read() resolved with done: chat.js:180, 217-218
browserReadDone(c, i) == endCall(safeClose(c, i, ""), i)

BrowserReadDone(i) ==
    /\ client.calls[i].pc = "read"
    /\ client' = browserReadDone(client, i)
    /\ UNCHANGED << chatVars, debug, twin, accum >>

\* reader.read() rejected (network error, or the signal was aborted):
\* chat.js:220-223
BrowserReadReject(i) ==
    /\ client.calls[i].pc = "read"
    /\ client' = endCall(safeClose(client, i, ERR_CONNECTION), i)
    /\ UNCHANGED << chatVars, debug, twin, accum >>

\* the animation frame that scheduleRender requested: renderNow,
\* chat.js:146-155, writes the text so far into the bubble
RenderNow(i) ==
    /\ client.calls[i].rafPending
    /\ client' = [ client EXCEPT !.calls[i].body = "acc",
                                 !.calls[i].shown = client.calls[i].acc,
                                 !.calls[i].rafPending = FALSE ]
    /\ UNCHANGED << chatVars, debug, twin, accum >>

\* a step of call i
CallStep(i) ==
    \/ DepsSettled(i)
    \/ BrowserFetchResolve(i) \/ BrowserFetchReject(i)
    \/ BrowserRead(i) \/ BrowserReadDone(i) \/ BrowserReadReject(i)
    \/ RenderNow(i)

NextClient == SendMessage \/ \E i \in 1..Len(client.calls) : CallStep(i)

\* every promise a call awaits settles, and the reply is finite
ClientFairness == WF_vars(\E i \in 1..Len(client.calls) : CallStep(i))

SpecClient == InitClient /\ [][NextClient]_vars /\ ClientFairness

\* the same page, with the invocations of safeClose counted
InitClose ==
    /\ NoStream(CoreConfig, [ lines |-> "core", answers |-> "core", cut |-> FALSE ],
                HttpResponse(0, ""))
    /\ debug = DebugIdle /\ twin = TwinIdle /\ accum = AccumIdle
    /\ client = [ isProcessing |-> FALSE, inputDisabled |-> FALSE, sendDisabled |-> FALSE,
                  typing |-> FALSE, chatHistory |-> << "assistant" >>, esRef |-> 0,
                  calls |-> << >>, counting |-> TRUE ]

SpecClose == InitClose /\ [][NextClient]_vars

\* the page is unlocked
unlocked == ~client.isProcessing /\ ~client.inputDisabled /\ ~client.sendDisabled

\* every call has returned
allEnded == \A i \in 1..Len(client.calls) : client.calls[i].pc = "ended"

\* C26: whenever a reply is under way the client eventually is unlocked
\* (isProcessing false, input and send button enabled), and every call
\* eventually returns; a call that has returned has run safeClose exactly
\* once, and while a call is the current one the page is unlocked exactly
\* when safeClose has run for it.
C26_ClientUnlocked ==
    /\ [](\A i \in 1..Len(client.calls) :
             client.calls[i].pc = "ended" => client.calls[i].closes = 1)
    /\ [](\A i \in 1..Len(client.calls) :
             client.esRef = i => (client.calls[i].closes = 1 <=> unlocked))
    /\ client.isProcessing ~> unlocked
    /\ <>[]allEnded

\* replies ended in each of the ways: [DONE] read, and a non-OK response,
\* and the page is unlocked
C26_Witness ==
    /\ Len(client.calls) = 2
    /\ client.calls[1].pc = "ended" /\ client.calls[1].lines > 0
    /\ client.calls[1].body = "acc"
    /\ client.calls[2].pc = "ended" /\ client.calls[2].body = ERR_UPSTREAM
    /\ unlocked

\* C27: after the blank line that ends a frame the event name is cleared, so
\* the later frame that has neither an `event:` line nor a type field is
\* classified with an empty type and yields no chunk: of the two frames
\* of StaleLines only the first yields a searching notice.
C27_EventNameClearedAtBlank ==
    script.lines = "stale"
    => /\ linesLeft <= 1 => lastEvent = ""
       /\ Cardinality(searchingIn(out)) <= 1

\* C28: a record of type response.completed that is not a text delta ends
\* the stream, also when its payload mentions web_search: once EchoLines are
\* decoded the stop chunk and [DONE] are enqueued and reading has stopped,
\* and no notice was sent for the record.
C28_CompletionAlwaysTerminates ==
    ( script.lines = "echo" /\ linesLeft = 0 /\ errorsIn(out) = {} )
    => /\ pc = "done"
       /\ stopsIn(out) # {} /\ donesIn(out) # {}
       /\ searchingIn(out) = {}

\* the texts that are empty or only whitespace
BlankTexts == {"", " ", "\n", " \n"}

\* C30: no text-delta chunk of the outgoing stream has a content that is
\* empty or only whitespace.
C30_NoBlankTextChunk ==
    \A i \in 1..Len(out) : out[i].id = "cmpl-chunk" => out[i].content \notin BlankTexts

\* the text chunks of the deltas ds
textChunks(ds) == [ i \in 1..Len(ds) |-> TextChunk(ds[i]) ]

\* the deltas of the delivery this step decodes
newDeltas == SubSeq(upDeltas', Len(upDeltas) + 1, Len(upDeltas'))

\* this step decodes a delivery that holds the sentinel: of the lines of
\* CoreLines only the sentinel makes readUpstream enqueue a stop chunk
decodesDone ==
    /\ pc = "reading" /\ linesLeft' < linesLeft
    /\ Cardinality(stopsIn(out')) > Cardinality(stopsIn(out))

\* the task ended because the translator decoded the sentinel
doneDecoded == pc = "done" /\ ~eof /\ errorsIn(out) = {} /\ donesIn(out) # {}

\* C29: the delivery that holds `data: [DONE]` adds to the stream the text
\* of the deltas before the sentinel and the terminal chunk (stop, [DONE]),
\* nothing for the lines after it, and ends the reading; the only chunks
\* after the terminal chunk are the stop and [DONE] of the finalisation
\* when no text was forwarded; afterwards no read is issued and nothing is
\* enqueued.
C29_NothingDecodedAfterDone ==
    /\ [][ decodesDone
           => /\ \E k \in 0..Len(newDeltas) :
                    out' = out \o textChunks(SubSeq(newDeltas, 1, k))
                               \o << StopChunk, DoneFrame >>
                               \o (IF gotFirstText' THEN << >> ELSE << StopChunk, DoneFrame >>)
              /\ readsIssued' = readsIssued
              /\ doneDecoded' ]_vars
    /\ [][ doneDecoded => out' = out /\ readsIssued' = readsIssued /\ pc' = pc ]_vars

\* the sentinel was decoded in a delivery that held a delta after it, which
\* was not forwarded
C29_Witness ==
    /\ doneDecoded
    /\ Len(upDeltas) > Len(contentsOf(out, "cmpl-chunk"))
    /\ Len(contentsOf(out, "cmpl-chunk")) > 0
    /\ heartbeatsIn(out) = {}

\* ---------------------------------------------------------------------
\* The first-packet fallback request

\* the fields a fallback payload shares with the payload of the first call
SharedFields == {"model", "input", "max_output_tokens"}

\* C31: a fallback request has stream false and neither tools nor
\* tool_choice; its model, input and max_output_tokens are those of the
\* first streaming payload; it has a seed exactly when that payload has one,
\* and then the same seed; one client request issues at most one fallback
\* request.
C31_FallbackIsOriginalUnstreamed ==
    /\ Len(fallbackReqs) <= 1
    /\ \A i \in 1..Len(fallbackReqs) :
          LET p == fallbackReqs[i].payload
              o == streamReqs[1].payload
          IN  /\ streamReqs # <<>>
              /\ p["stream"] = "false"
              /\ {"tools", "tool_choice"} \cap DOMAIN p = {}
              /\ SharedFields \subseteq DOMAIN p
              /\ \A f \in SharedFields : p[f] = o[f]
              /\ "seed" \in DOMAIN p <=> "seed" \in DOMAIN o
              /\ "seed" \in DOMAIN p => p["seed"] = o["seed"]

\* a request whose first payload had tools and a seed was retried after a
\* 400 and then fell back; and the fallback call has answered
C31_Witness ==
    /\ Len(streamReqs) = 2
    /\ Len(fallbackReqs) = 1
    /\ {"tools", "tool_choice", "seed"} \subseteq DOMAIN streamReqs[1].payload
    /\ wd \in {"done", "threw"}

\* ---------------------------------------------------------------------
\* Exceptions while reading

\* what the catch block sends for a dropped connection
networkTail == << ErrorChunk(T_WORKER_ERROR(E_NETWORK)), StopChunk, DoneFrame >>

\* the places of worker-error chunks in q
workerErrorsIn(q) == { i \in errorsIn(q) : q[i] = ErrorChunk(T_WORKER_ERROR(E_NETWORK)) }

\* C32: a read of the upstream body that rejects with a network error adds
\* to the stream, in that turn, one worker-error chunk, the stop chunk and
\* [DONE], and closes the stream, leaving the chunks sent before as they
\* were; the stream never holds two worker-error chunks, and nothing is
\* ever enqueued behind the [DONE] that follows one.
C32_ReadErrorSurfacedOnce ==
    /\ [](/\ Cardinality(workerErrorsIn(out)) <= 1
          /\ \A i \in workerErrorsIn(out) :
                /\ ctrlClosed
                /\ Len(out) = i + 2
                /\ SubSeq(out, i, i + 2) = networkTail)
    /\ [][ReadError => /\ out' = out \o networkTail
                       /\ ~ctrlClosed /\ ctrlClosed']_vars

\* the connection dropped after two text deltas had been forwarded, and the
\* watchdog has run since
C32_Witness ==
    /\ Len(upDeltas) = 2
    /\ contentsOf(out, "cmpl-chunk") = upDeltas
    /\ Len(out) = 6
    /\ SubSeq(out, 4, 6) = networkTail
    /\ ctrlClosed
    /\ wd = "returned"

\* ---------------------------------------------------------------------
\* The frames of the accumulator variant

\* a is a prefix of b
isPrefix(a, b) == Len(a) <= Len(b) /\ SubSeq(b, 1, Len(a)) = a

\* the texts of the {response, done:false} frames sent so far
responseTexts ==
    LET rs == responsesIn(accum.frames) IN [ i \in 1..Len(rs) |-> rs[i].response ]

\* C33: in the accumulator variant every response frame carries a text that
\* has the text of the response frame before it as a prefix, and the text of
\* the first response frame is not empty and does not start with whitespace.
C33_ResponsesArePrefixChain ==
    accum.pc # "off" =>
        /\ \A i \in 1..(Len(responseTexts) - 1) :
              isPrefix(responseTexts[i], responseTexts[i + 1])
        /\ responseTexts # << >> =>
              /\ responseTexts[1] # << >>
              /\ Head(responseTexts[1]) \notin Whitespace

\* the upstream sent "\nb", then "a", then [DONE]: three response frames,
\* the first trimmed, the second longer, the third equal to the second
C33_Witness ==
    /\ accum.pc = "closed"
    /\ accum.sent = << AccDelta(<< "\n", "b" >>), AccDelta(<< "a" >>), AccDone >>
    /\ responseTexts = << << "b" >>, << "b", "a" >>, << "b", "a" >> >>

\* the places of {done:true} frames among the frames
endsIn(frames) == { i \in 1..Len(frames) : frames[i].done }

\* C34: in the accumulator variant a stream that is still being read, or
\* that the consumer cancelled or a failed read errored while it was read,
\* holds no {done:true} frame, and a stream that was closed at the
\* upstream's [DONE] or EOF holds exactly one, as its last frame; once the
\* stream is closed no frame is added and it stays closed, whatever the
\* consumer does (reads of the queued frames, cancel).
C34_OneDoneFrameLast ==
    /\ [](accum.pc \in {"reading", "cancelled", "errored"} => endsIn(accum.frames) = {})
    /\ [](accum.pc = "closed" =>
            /\ accum.frames # << >>
            /\ endsIn(accum.frames) = { Len(accum.frames) })
    /\ [][accum.pc = "closed" => accum'.frames = accum.frames /\ accum'.pc = "closed"]_vars

\* the upstream ended without [DONE], its last event unterminated: the tail
\* was flushed, and the frames end with the whole text and {done:true}
C34_Witness ==
    /\ accum.pc = "closed"
    /\ accum.sent = << AccDelta(<< "a" >>), AccDelta(<< "\n", "b" >>) >>
    /\ accum.buffer # << >>
    /\ accum.frames = << ResponseFrame(<< "a" >>), ResponseFrame(<< "a", "\n", "b" >>), EndFrame >>

\* ---------------------------------------------------------------------
\* The heartbeat and the end of the stream

\* C35: once the stream holds a stop chunk or has been closed the heartbeat
\* interval is cleared, at every boundary between two turns of the event
\* loop; a heartbeat tick runs only on a stream without stop chunk and not
\* closed; and every heartbeat notice in the stream stands before every
\* stop chunk and every [DONE].
C35_NoHeartbeatAfterEnd ==
    /\ [](stopsIn(out) # {} \/ ctrlClosed => ~hbOn)
    /\ [](\A i \in heartbeatsIn(out) : \A j \in stopsIn(out) \cup donesIn(out) : i < j)
    /\ [][hbDue' # hbDue => stopsIn(out) = {} /\ ~ctrlClosed]_vars

\* a stream that got a heartbeat notice, then ended with a stop chunk and
\* was closed, at a time when the next tick would have been due
C35_Witness ==
    /\ ctrlClosed
    /\ heartbeatsIn(out) # {}
    /\ stopsIn(out) # {}
    /\ now >= hbDue

\* ---------------------------------------------------------------------
\* Upstream requests and the closed stream

\* C36: once controller.close() has been executed no upstream request is
\* issued: no step taken with the stream closed adds a request, and the
\* watchdog never goes on to its fallback fetch on a closed stream.
C36_NoRequestAfterClose ==
    [][ctrlClosed => reqs' = reqs /\ (wd' = "fetching" => wd = "fetching")]_vars

\* ---------------------------------------------------------------------
\* The timeout message

\* C37: the stream holds the timeout message only when the 45 s timer has
\* fired; an abort by the first-packet watchdog does not put it there.
C37_TimeoutMessageOnlyAfterTimeout ==
    has(out, ErrorChunk(T_TIMEOUT)) => toTimer = "fired" /\ aborted = E_TIMEOUT

\* ---------------------------------------------------------------------
\* Streamed text and fallback text

\* the texts the fallback callback can enqueue for an OK answer
FallbackTexts == { fallbackOut(r.body) : r \in { x \in FallbackResponses : ok(x) /\ x.body # "" } }

\* the stream holds the text of a fallback answer
fallbackTextIn(q) ==
    \E i \in 1..Len(q) : q[i].id = "cmpl-chunk" /\ q[i].content \in FallbackTexts

\* the stream holds a text delta forwarded from the streaming call
streamedTextIn(q) ==
    \E i \in 1..Len(q) :
        q[i].id = "cmpl-chunk" /\ q[i].content \notin NoticeTexts \cup FallbackTexts

\* C38: a stream to which a text delta of the streaming call was forwarded
\* never holds the text of the fallback answer; and a watchdog callback
\* that runs after a text delta was forwarded returns at once: it does not
\* abort the upstream, issues no request and leaves the task and the stream
\* as they were.
C38_StreamedXorFallback ==
    /\ [](streamedTextIn(out) => gotFirstText /\ ~fallbackTextIn(out))
    /\ [][ ( /\ wd = "armed" /\ wd' \in {"returned", "fetching"}
             /\ streamedTextIn(out) )
           => /\ wd' = "returned"
              /\ aborted' = aborted
              /\ reqs' = reqs
              /\ out' = out /\ pc' = pc /\ ctrlClosed' = ctrlClosed ]_vars

\* a text delta was forwarded, the watchdog callback ran and returned, and
\* the task went on to forward a second delta
C38_Witness ==
    /\ wd = "returned"
    /\ Len(upDeltas) = 2
    /\ contentsOf(out, "cmpl-chunk") = upDeltas
    /\ aborted = "no"
    /\ fallbackReqs = << >>
    /\ now >= wdDue

\* ---------------------------------------------------------------------
\* safeClose of the browser client

\* the replies appended to chatHistory
repliesIn(h) == { k \in 1..Len(h) : h[k] = "assistant" }

\* the calls that were closed with text
answeredCalls ==
    { i \in 1..Len(client.calls) :
        /\ client.calls[i].closed
        /\ client.calls[i].acc # << >> /\ ~isBlank(client.calls[i].acc) }

\* what safeClose shows and unlocks
page == << client.chatHistory, client.isProcessing, client.inputDisabled,
           client.sendDisabled, client.typing >>

\* C39: however often safeClose is invoked for one sendMessage call, its
\* body runs at most once: chatHistory holds one reply for each call that
\* had text and none for the others, and an invocation for a call that is
\* already closed leaves chatHistory, the lock, the input, the button and
\* the typing indicator as they are.
C39_SafeCloseOncePerCall ==
    /\ [](\A i \in 1..Len(client.calls) :
            /\ client.calls[i].closes <= 1
            /\ client.calls[i].closed <=> client.calls[i].closes = 1
            /\ client.calls[i].asked >= 1 => client.calls[i].closed)
    /\ [](Cardinality(repliesIn(client.chatHistory)) = 1 + Cardinality(answeredCalls))
    /\ [][ \A i \in 1..Len(client.calls) :
             ( client.calls[i].closed /\ client'.calls[i].asked > client.calls[i].asked )
             => /\ page' = page
                /\ client'.calls[i].body = client.calls[i].body ]_vars

\* the first call was closed at [DONE] with text; the user sent the next
\* message; then the first call's read ended and its safeClose ran a second
\* time while the page was locked for the second call
C39_Witness ==
    /\ Len(client.calls) = 2
    /\ client.counting
    /\ client.calls[1].asked = 2
    /\ client.calls[1].closes = 1
    /\ client.calls[1].body = "acc"
    /\ client.calls[1].pc = "ended"
    /\ client.calls[2].asked = 0
    /\ client.isProcessing /\ client.inputDisabled
    /\ client.chatHistory = << "assistant", "user", "assistant", "user" >>

=============================================================================
